---- MODULE Spec2Model ----
(***************************************************************************)
(* Model of the event-aggregation pipeline of the schedule repository:     *)
(* lib/data-sources (fetch adapters and normalizers), lib/events-service   *)
(* (sortEvents, getCalendarEvents) and the types of types/events.ts.       *)
(*                                                                         *)
(* JavaScript strings are TLA+ strings; an absent (undefined / null)       *)
(* field is the value Undefined.  Instants are integers counted in days;   *)
(* a month of the date-fns calendar arithmetic is DaysPerMonth days.       *)
(***************************************************************************)
EXTENDS Integers, Sequences, FiniteSets, TLC

\* ------------------------------------------------------------------ bounds
\* Length of a month of the model's calendar, in days.
DaysPerMonth == 2
\* The clock `now` advances at most this many days during a run.
MaxTicks == 1
\* Longest list handed to mergeAndSortEvents when it is called on its own.
MaxListLen == 2
\* Longest raw payload handed to a normalizer when it is called on its own.
MaxPayloadLen == 2

\* ------------------------------------------------------- program constants
DEFAULT_RANGE_MONTHS_AHEAD == 6
DEFAULT_RANGE_MONTHS_BEHIND == 1
LEGACY_RANGE_MONTHS_AHEAD == 18
LEGACY_RANGE_MONTHS_BEHIND == 3

Undefined == "<undefined>"

ClubSources == {"MANCHESTER_UNITED", "LEEDS_UNITED"}
CalendarSource == {"MANCHESTER_UNITED", "LEEDS_UNITED", "LEGACY_CS2", "UFC"}

TEAM_SOURCES ==
  [ MANCHESTER_UNITED |->
      [ teamId |-> "360",
        displayName |-> "Manchester United",
        endpoints |-> << "eng.1/teams/360/schedule" >>,
        scoreboardEndpoints |-> << "eng.1/scoreboard" >> ],
    LEEDS_UNITED |->
      [ teamId |-> "357",
        displayName |-> "Leeds United",
        endpoints |-> << "eng.1/teams/357/schedule", "eng.2/teams/357/schedule" >>,
        scoreboardEndpoints |-> << "eng.1/scoreboard", "eng.2/scoreboard" >> ] ]

UFC_SCOREBOARD_ENDPOINT == "mma/ufc/scoreboard"
LIQUIPEDIA_ENDPOINT == "liquipedia.net/counterstrike/api.php"

SORT_ORDER ==
  [ MANCHESTER_UNITED |-> 0, LEEDS_UNITED |-> 1, LEGACY_CS2 |-> 2, UFC |-> 3 ]

\* ------------------------------------------------------------ JS primitives
\* a ?? b
Nullish(a, b) == IF a = Undefined THEN b ELSE a

\* !value for a string-or-undefined value
Falsy(s) == s = Undefined \/ s = ""

\* An optional object or number (a record or an integer cannot be compared
\* with the string Undefined): the empty sequence when absent, else << x >>.
None == << >>
Some(x) == << x >>

\* ------------------------------------------------------------------- dates
\* Every instant a date string of the model can denote.
Horizon == (LEGACY_RANGE_MONTHS_AHEAD + 2) * DaysPerMonth + MaxTicks
Instants == (0 - Horizon) .. Horizon

\* Date.prototype.toISOString: the canonical rendering, "....:00.000Z".
ToISOString(t) == "T" \o ToString(t) \o ":00.000Z"

\* The provider's rendering of the same instant, "....Z" without seconds.
ProviderDate(t) == "T" \o ToString(t) \o "Z"

\* The strings Date's parser accepts, with the instant each denotes.
DateTable ==
  [ s \in { ToISOString(t) : t \in Instants } \cup { ProviderDate(t) : t \in Instants }
      |-> CHOOSE t \in Instants : s \in { ToISOString(t), ProviderDate(t) } ]

\* new Date(string): valid = ~Number.isNaN(date.getTime()), time = getTime().
NewDate(s) ==
  IF s \in DOMAIN DateTable
    THEN [ valid |-> TRUE, time |-> DateTable[s] ]
    ELSE [ valid |-> FALSE, time |-> 0 ]

\* new Date(x).getTime() of a string known to be a valid date
GetTime(s) == NewDate(s).time

addMonths(t, months) == t + months * DaysPerMonth
subMonths(t, months) == t - months * DaysPerMonth

\* isWithinWindow with both comparisons strict (> and < for >= and <=).
isWithinWindowExclusive(dateISO, monthsAhead, monthsBehind, clock) ==
  LET date == NewDate(dateISO)
      earliest == subMonths(clock, monthsBehind)
      latest == addMonths(clock, monthsAhead)
  IN  IF ~date.valid THEN FALSE
      ELSE date.time > earliest /\ date.time < latest

\* isWithinWindow without the comparison against earliest.
isWithinWindowUpperOnly(dateISO, monthsAhead, monthsBehind, clock) ==
  LET date == NewDate(dateISO)
      latest == addMonths(clock, monthsAhead)
  IN  IF ~date.valid THEN FALSE ELSE date.time <= latest

\* isWithinWindow, with the clock reading `clock` taken by its new Date().
isWithinWindow(dateISO, monthsAhead, monthsBehind, clock) ==
  LET date == NewDate(dateISO)
      earliest == subMonths(clock, monthsBehind)
      latest == addMonths(clock, monthsAhead)
  IN  IF ~date.valid THEN FALSE
      ELSE date.time >= earliest /\ date.time <= latest

isWithinDefaultWindow(dateISO, clock) ==
  isWithinWindow(dateISO, DEFAULT_RANGE_MONTHS_AHEAD, DEFAULT_RANGE_MONTHS_BEHIND, clock)

\* toISO: null (Undefined) for an absent, empty or unparseable date string.
toISO(dateString) ==
  IF Falsy(dateString) THEN Undefined
  ELSE IF ~NewDate(dateString).valid THEN Undefined
  ELSE ToISOString(NewDate(dateString).time)

\* ------------------------------------------------------- canonical events
\* CalendarEventWithMeta; an optional field that is absent holds Undefined.
CanonicalEvent(id, source, title, competition, fighters, startTimeUTC, venue, location, status, url, subtitle, result, outcome) ==
  [ id |-> id, source |-> source, title |-> title, competition |-> competition,
    fighters |-> fighters, startTimeUTC |-> startTimeUTC, venue |-> venue,
    location |-> location, status |-> status, url |-> url, subtitle |-> subtitle,
    result |-> result, outcome |-> outcome ]

\* ---------------------------------------------------------------- sorting
\* sortEventsCompare with its operands exchanged (b before a).
sortEventsCompareReversed(a, b) ==
  LET dateComparison == GetTime(b.startTimeUTC) - GetTime(a.startTimeUTC)
  IN  IF dateComparison # 0 THEN dateComparison
      ELSE SORT_ORDER[b.source] - SORT_ORDER[a.source]

\* The comparator of sortEvents: negative, zero or positive.
sortEventsCompare(a, b) ==
  LET dateComparison == GetTime(a.startTimeUTC) - GetTime(b.startTimeUTC)
  IN  IF dateComparison # 0 THEN dateComparison
      ELSE SORT_ORDER[a.source] - SORT_ORDER[b.source]

\* The comparator of mergeAndSortEvents: start time only.
mergeCompare(a, b) == GetTime(a.startTimeUTC) - GetTime(b.startTimeUTC)

\* An insertion that drops an event comparing equal to one already placed.
RECURSIVE InsertBySortEventsDropTies(_, _)
InsertBySortEventsDropTies(sorted, e) ==
  IF sorted = << >> THEN << e >>
  ELSE IF sortEventsCompare(Head(sorted), e) = 0 THEN sorted
  ELSE IF sortEventsCompare(Head(sorted), e) > 0 THEN << e >> \o sorted
  ELSE << Head(sorted) >> \o InsertBySortEventsDropTies(Tail(sorted), e)

\* One step of a stable sort: e goes behind every element that does not
\* compare greater than it.
RECURSIVE InsertBySortEvents(_, _)
InsertBySortEvents(sorted, e) ==
  IF sorted = << >> THEN << e >>
  ELSE IF sortEventsCompare(Head(sorted), e) > 0 THEN << e >> \o sorted
  ELSE << Head(sorted) >> \o InsertBySortEvents(Tail(sorted), e)

RECURSIVE InsertByMerge(_, _)
InsertByMerge(sorted, e) ==
  IF sorted = << >> THEN << e >>
  ELSE IF mergeCompare(Head(sorted), e) > 0 THEN << e >> \o sorted
  ELSE << Head(sorted) >> \o InsertByMerge(Tail(sorted), e)

\* events.toSorted(comparator): a stable sort that leaves `events` alone.
RECURSIVE SortFrom(_, _)
SortFrom(sorted, rest) ==
  IF rest = << >> THEN sorted
  ELSE SortFrom(InsertBySortEvents(sorted, Head(rest)), Tail(rest))

sortEvents(events) == SortFrom(<< >>, events)

RECURSIVE MergeSortFrom(_, _)
MergeSortFrom(sorted, rest) ==
  IF rest = << >> THEN sorted
  ELSE MergeSortFrom(InsertByMerge(sorted, Head(rest)), Tail(rest))

\* MapSet that pushes onto a list instead of setting a key.
MapSetAppend(deduped, event) == Append(deduped, event)

\* MapSet that leaves a key already present alone.
MapSetKeepFirst(deduped, event) ==
  IF \E i \in 1..Len(deduped) : deduped[i].id = event.id
    THEN deduped ELSE Append(deduped, event)

\* deduped.set(event.id, event) on a Map kept as its values in key-insertion
\* order: a key already present keeps its position and takes the new value.
MapSet(deduped, event) ==
  IF \E i \in 1..Len(deduped) : deduped[i].id = event.id
    THEN [ i \in 1..Len(deduped) |->
             IF deduped[i].id = event.id THEN event ELSE deduped[i] ]
    ELSE Append(deduped, event)

RECURSIVE MapSetAll(_, _)
MapSetAll(deduped, list) ==
  IF list = << >> THEN deduped
  ELSE MapSetAll(MapSet(deduped, Head(list)), Tail(list))

\* Concatenation of a sequence of lists (the loop over ...sources).
RECURSIVE Flatten(_)
Flatten(lists) ==
  IF lists = << >> THEN << >> ELSE Head(lists) \o Flatten(Tail(lists))

\* mergeAndSortEvents(...sources)
mergeAndSortEvents(sources) ==
  MergeSortFrom(<< >>, MapSetAll(<< >>, Flatten(sources)))

\* ------------------------------------------------------- string helpers
CharAt(s, i) == SubSeq(s, i, i)

IsDigit(c) == \E d \in 1..10 : CharAt("0123456789", d) = c

DigitValue(c) == (CHOOSE d \in 1..10 : CharAt("0123456789", d) = c) - 1

\* \s of a regular expression (the whitespace the model's strings use)
IsSpace(c) == c = " "

RECURSIVE TrimStart(_)
TrimStart(s) ==
  IF Len(s) > 0 /\ IsSpace(CharAt(s, 1)) THEN TrimStart(SubSeq(s, 2, Len(s))) ELSE s

RECURSIVE TrimEnd(_)
TrimEnd(s) ==
  IF Len(s) > 0 /\ IsSpace(CharAt(s, Len(s)))
    THEN TrimEnd(SubSeq(s, 1, Len(s) - 1)) ELSE s

\* String.prototype.trim
Trim(s) == TrimEnd(TrimStart(s))

\* pieces.join(separator)
RECURSIVE Join(_, _)
Join(pieces, separator) ==
  IF pieces = << >> THEN ""
  ELSE IF Len(pieces) = 1 THEN pieces[1]
  ELSE pieces[1] \o separator \o Join(Tail(pieces), separator)

\* array.filter(Boolean) on an array of strings-or-undefined
RECURSIVE FilterBoolean(_)
FilterBoolean(pieces) ==
  IF pieces = << >> THEN << >>
  ELSE IF Falsy(Head(pieces)) THEN FilterBoolean(Tail(pieces))
  ELSE << Head(pieces) >> \o FilterBoolean(Tail(pieces))

\* The value of the run of decimal digits of s that starts at position i.
RECURSIVE DigitRun(_, _, _)
DigitRun(s, i, acc) ==
  IF i <= Len(s) /\ IsDigit(CharAt(s, i))
    THEN DigitRun(s, i + 1, acc * 10 + DigitValue(CharAt(s, i)))
    ELSE acc

\* extractNumericScore reading one digit where the code reads the whole run.
extractNumericScoreOneDigit(value) ==
  IF Falsy(value) THEN None
  ELSE IF ~\E i \in 1..Len(value) : IsDigit(CharAt(value, i)) THEN None
  ELSE LET first == CHOOSE i \in 1..Len(value) :
                      /\ IsDigit(CharAt(value, i))
                      /\ \A j \in 1..(i - 1) : ~IsDigit(CharAt(value, j))
           magnitude == DigitValue(CharAt(value, first))
       IN  IF first > 1 /\ CharAt(value, first - 1) = "-"
             THEN Some(0 - magnitude) ELSE Some(magnitude)

\* extractNumericScore: the first match of /-?\d+/ as a number, else null.
extractNumericScore(value) ==
  IF Falsy(value) THEN None
  ELSE IF ~\E i \in 1..Len(value) : IsDigit(CharAt(value, i)) THEN None
  ELSE LET first == CHOOSE i \in 1..Len(value) :
                      /\ IsDigit(CharAt(value, i))
                      /\ \A j \in 1..(i - 1) : ~IsDigit(CharAt(value, j))
           magnitude == DigitRun(value, first, 0)
       IN  IF first > 1 /\ CharAt(value, first - 1) = "-"
             THEN Some(0 - magnitude) ELSE Some(magnitude)

\* ------------------------------------------------------ raw club fixtures
\* One competitor of RawTeamSchedule's competitions[].competitors[].
RawCompetitor(homeAway, teamId, displayName, score) ==
  [ homeAway |-> homeAway, teamId |-> teamId, displayName |-> displayName,
    score |-> score ]

\* venue: { fullName, address: { city, country } }; a fixture's venue is
\* None or Some(RawVenue(...)).
RawVenue(fullName, city, country) ==
  [ fullName |-> fullName, city |-> city, country |-> country ]

\* One entry of RawTeamSchedule's competitions[].
RawCompetition(date, venue, competitors, state, detail, description) ==
  [ date |-> date, venue |-> venue, competitors |-> competitors,
    state |-> state, detail |-> detail, description |-> description ]

\* One entry of RawTeamSchedule's events[]; an absent competitions or
\* competitors array is the empty sequence (the code reads both alike).
RawTeamEvent(id, date, leagueShortName, seasonTypeName, seasonDisplayName, competitions) ==
  [ id |-> id, date |-> date, leagueShortName |-> leagueShortName,
    seasonTypeName |-> seasonTypeName, seasonDisplayName |-> seasonDisplayName,
    competitions |-> competitions ]

\* event.competitions?.[0]
FirstCompetition(event) ==
  IF event.competitions = << >> THEN None ELSE Some(event.competitions[1])

\* competition?.field, for a string field
CompetitionField(competition, field) ==
  IF competition = None THEN Undefined ELSE competition[1][field]

\* competition?.venue
VenueOf(competition) ==
  IF competition = None THEN None ELSE competition[1].venue

\* competition?.competitors ?? []
CompetitorsOf(competition) ==
  IF competition = None THEN << >> ELSE competition[1].competitors

\* competitors.find(c => c.team?.id === teamId)
FindFocus(competitors, teamId) ==
  IF \E i \in 1..Len(competitors) : competitors[i].teamId = teamId
    THEN LET i == CHOOSE i \in 1..Len(competitors) :
                    /\ competitors[i].teamId = teamId
                    /\ \A j \in 1..(i - 1) : competitors[j].teamId # teamId
         IN  Some(competitors[i])
    ELSE None

IsOpponent(competitor, teamId) ==
  ~Falsy(competitor.teamId) /\ competitor.teamId # teamId

\* competitors.find(c => c.team?.id && c.team.id !== teamId)
FindOpponent(competitors, teamId) ==
  IF \E i \in 1..Len(competitors) : IsOpponent(competitors[i], teamId)
    THEN LET i == CHOOSE i \in 1..Len(competitors) :
                    /\ IsOpponent(competitors[i], teamId)
                    /\ \A j \in 1..(i - 1) : ~IsOpponent(competitors[j], teamId)
         IN  Some(competitors[i])
    ELSE None

\* competitor?.field
CompetitorField(competitor, field) ==
  IF competitor = None THEN Undefined ELSE competitor[1][field]

buildLocation(venue) ==
  IF venue = None THEN Undefined
  ELSE LET pieces == FilterBoolean(<< venue[1].fullName, venue[1].city,
                                      venue[1].country >>)
       IN  IF Len(pieces) > 0 THEN Join(pieces, ", ") ELSE Undefined

formatMatchup(ourTeam, competitors) ==
  LET focus == FindFocus(competitors, ourTeam.id)
      opponent == FindOpponent(competitors, ourTeam.id)
      opponentName == Nullish(CompetitorField(opponent, "displayName"), "TBD")
      homeAway == CompetitorField(focus, "homeAway")
      qualifier == IF homeAway = "home" THEN "vs"
                   ELSE IF homeAway = "away" THEN "@" ELSE "vs"
  IN  [ title |-> Trim(ourTeam.displayName \o " " \o qualifier \o " " \o opponentName),
        subtitle |-> opponentName ]

\* The result and outcome normalizeTeamEvents derives for one fixture.
\* A derivation that sets a result whatever the state, and no outcome.
TeamResultAnyState(state, focusScore, opponentScore, statusDetail, statusDescription) ==
  IF ~Falsy(focusScore) /\ ~Falsy(opponentScore)
    THEN [ result |-> focusScore \o " - " \o opponentScore, outcome |-> Undefined ]
  ELSE IF ~Falsy(statusDetail)
    THEN [ result |-> statusDetail, outcome |-> Undefined ]
  ELSE [ result |-> statusDescription, outcome |-> Undefined ]

TeamResult(state, focusScore, opponentScore, statusDetail, statusDescription) ==
  IF state # "post" THEN [ result |-> Undefined, outcome |-> Undefined ]
  ELSE IF ~Falsy(focusScore) /\ ~Falsy(opponentScore)
    THEN LET focusNumeric == extractNumericScore(focusScore)
             opponentNumeric == extractNumericScore(opponentScore)
         IN  [ result |-> focusScore \o " - " \o opponentScore,
               outcome |->
                 IF focusNumeric # None /\ opponentNumeric # None
                   THEN IF focusNumeric[1] > opponentNumeric[1] THEN "WIN"
                        ELSE IF focusNumeric[1] < opponentNumeric[1] THEN "LOSS"
                        ELSE "DRAW"
                   ELSE Undefined ]
  ELSE IF ~Falsy(statusDetail)
    THEN [ result |-> statusDetail, outcome |-> Undefined ]
  ELSE IF ~Falsy(statusDescription)
    THEN [ result |-> statusDescription, outcome |-> Undefined ]
  ELSE [ result |-> Undefined, outcome |-> Undefined ]

\* The body of normalizeTeamEvents' loop: the events one raw fixture adds.
\* NormalizeTeamEvent whose id falls back to the time of the call.
NormalizeTeamEventFetchTimeId(event, source, clock) ==
  LET config == TEAM_SOURCES[source]
      competition == FirstCompetition(event)
      startTime == toISO(Nullish(CompetitionField(competition, "date"), event.date))
      competitors == CompetitorsOf(competition)
      focusCompetitor == FindFocus(competitors, config.teamId)
      opponentCompetitor == FindOpponent(competitors, config.teamId)
      matchup == formatMatchup([ id |-> config.teamId,
                                 displayName |-> config.displayName ], competitors)
      state == CompetitionField(competition, "state")
      statusDetail == CompetitionField(competition, "detail")
      statusDescription == CompetitionField(competition, "description")
      derived == TeamResult(state, CompetitorField(focusCompetitor, "score"),
                            CompetitorField(opponentCompetitor, "score"),
                            statusDetail, statusDescription)
      venue == VenueOf(competition)
  IN  IF startTime = Undefined THEN << >>
      ELSE IF ~isWithinDefaultWindow(startTime, clock) THEN << >>
      ELSE << CanonicalEvent(
                source \o "-" \o Nullish(event.id, ToISOString(clock)),
                source,
                matchup.title,
                Nullish(event.leagueShortName,
                        Nullish(event.seasonTypeName, event.seasonDisplayName)),
                Undefined,
                startTime,
                IF venue = None THEN Undefined ELSE venue[1].fullName,
                buildLocation(venue),
                Nullish(statusDetail, statusDescription),
                Undefined,
                matchup.subtitle,
                derived.result,
                derived.outcome) >>

NormalizeTeamEvent(event, source, clock) ==
  LET config == TEAM_SOURCES[source]
      competition == FirstCompetition(event)
      startTime == toISO(Nullish(CompetitionField(competition, "date"), event.date))
      competitors == CompetitorsOf(competition)
      focusCompetitor == FindFocus(competitors, config.teamId)
      opponentCompetitor == FindOpponent(competitors, config.teamId)
      matchup == formatMatchup([ id |-> config.teamId,
                                 displayName |-> config.displayName ], competitors)
      state == CompetitionField(competition, "state")
      statusDetail == CompetitionField(competition, "detail")
      statusDescription == CompetitionField(competition, "description")
      derived == TeamResult(state, CompetitorField(focusCompetitor, "score"),
                            CompetitorField(opponentCompetitor, "score"),
                            statusDetail, statusDescription)
      venue == VenueOf(competition)
  IN  IF startTime = Undefined THEN << >>
      ELSE IF ~isWithinDefaultWindow(startTime, clock) THEN << >>
      ELSE << CanonicalEvent(
                source \o "-" \o Nullish(event.id, startTime),
                source,
                matchup.title,
                Nullish(event.leagueShortName,
                        Nullish(event.seasonTypeName, event.seasonDisplayName)),
                Undefined,
                startTime,
                IF venue = None THEN Undefined ELSE venue[1].fullName,
                buildLocation(venue),
                Nullish(statusDetail, statusDescription),
                Undefined,
                matchup.subtitle,
                derived.result,
                derived.outcome) >>

\* normalizeTeamEvents(events, source), run while the clock reads `clock`;
\* an absent events array is the empty sequence (events ?? []).
RECURSIVE normalizeTeamEvents(_, _, _)
normalizeTeamEvents(events, source, clock) ==
  IF events = << >> THEN << >>
  ELSE NormalizeTeamEvent(Head(events), source, clock)
         \o normalizeTeamEvents(Tail(events), source, clock)

\* ---------------------------------------------------- combat-sports feed
\* One entry of RawUfcScoreboard's events[].competitions[]; matchNumber is
\* None or Some(n); athletes holds competitors[].athlete?.displayName.
RawUfcCompetition(date, matchNumber, cardSegment, typeText, typeAbbreviation, athletes) ==
  [ date |-> date, matchNumber |-> matchNumber, cardSegment |-> cardSegment,
    typeText |-> typeText, typeAbbreviation |-> typeAbbreviation,
    athletes |-> athletes ]

\* One entry of RawUfcScoreboard's events[]; an absent competitions array is
\* the empty sequence.
RawUfcEvent(id, date, name, competitions) ==
  [ id |-> id, date |-> date, name |-> name, competitions |-> competitions ]

\* competition.matchNumber ?? 100
UfcRank(competition) ==
  IF competition.matchNumber = None THEN 100 ELSE competition.matchNumber[1]

\* array.filter(c => c.cardSegment?.name === "main")
RECURSIVE FilterMain(_)
FilterMain(competitions) ==
  IF competitions = << >> THEN << >>
  ELSE IF Head(competitions).cardSegment = "main"
    THEN << Head(competitions) >> \o FilterMain(Tail(competitions))
  ELSE FilterMain(Tail(competitions))

\* pool.reduce((best, current) => currentRank < bestRank ? current : best)
\* ReduceBest that lets a later candidate of equal rank replace the best.
RECURSIVE ReduceBestLatest(_, _)
ReduceBestLatest(best, rest) ==
  IF rest = << >> THEN best
  ELSE ReduceBestLatest(IF UfcRank(Head(rest)) <= UfcRank(best) THEN Head(rest) ELSE best,
                        Tail(rest))

RECURSIVE ReduceBest(_, _)
ReduceBest(best, rest) ==
  IF rest = << >> THEN best
  ELSE ReduceBest(IF UfcRank(Head(rest)) < UfcRank(best) THEN Head(rest) ELSE best,
                  Tail(rest))

pickMainUfcCompetition(competitions) ==
  IF competitions = << >> THEN None
  ELSE LET mainCandidates == FilterMain(competitions)
           pool == IF Len(mainCandidates) > 0 THEN mainCandidates ELSE competitions
       IN  Some(ReduceBest(Head(pool), Tail(pool)))

\* competition?.field of the picked sub-competition, for a string field
UfcField(competition, field) ==
  IF competition = None THEN Undefined ELSE competition[1][field]

\* The event normalizeUfcEvents pushes for a raw entry that passed its checks.
UfcCanonical(event, competition, startTime) ==
  LET fighterNames ==
        Join(FilterBoolean(IF competition = None THEN << >>
                           ELSE competition[1].athletes), " vs ")
  IN  CanonicalEvent(
        "UFC-" \o event.id,
        "UFC",
        Nullish(event.name, Nullish(UfcField(competition, "typeText"), "UFC Event")),
        Nullish(UfcField(competition, "typeText"),
                UfcField(competition, "typeAbbreviation")),
        IF fighterNames = "" THEN Undefined ELSE fighterNames,
        startTime,
        Undefined, Undefined, Undefined, Undefined, Undefined, Undefined, Undefined)

\* UfcLoop that never records an id as seen.
RECURSIVE UfcLoopNoSeen(_, _, _, _)
UfcLoopNoSeen(events, seen, normalized, clock) ==
  IF events = << >> THEN normalized
  ELSE LET event == Head(events)
           competition == pickMainUfcCompetition(event.competitions)
           startTime == toISO(Nullish(event.date, UfcField(competition, "date")))
       IN  IF Falsy(event.id)
             THEN UfcLoopNoSeen(Tail(events), seen, normalized, clock)
           ELSE IF startTime = Undefined \/ ~isWithinDefaultWindow(startTime, clock)
             THEN UfcLoopNoSeen(Tail(events), seen, normalized, clock)
           ELSE UfcLoopNoSeen(Tail(events), seen,
                  Append(normalized, UfcCanonical(event, competition, startTime)), clock)

\* UfcLoop in which a later entry of an id replaces the event of an earlier one.
RECURSIVE UfcLoopLastWins(_, _, _, _)
UfcLoopLastWins(events, seen, normalized, clock) ==
  IF events = << >> THEN normalized
  ELSE LET event == Head(events)
           competition == pickMainUfcCompetition(event.competitions)
           startTime == toISO(Nullish(event.date, UfcField(competition, "date")))
           canonical == UfcCanonical(event, competition, startTime)
       IN  IF Falsy(event.id)
             THEN UfcLoopLastWins(Tail(events), seen, normalized, clock)
           ELSE IF startTime = Undefined \/ ~isWithinDefaultWindow(startTime, clock)
             THEN UfcLoopLastWins(Tail(events), seen \cup { event.id }, normalized, clock)
           ELSE IF \E i \in 1..Len(normalized) : normalized[i].id = canonical.id
             THEN UfcLoopLastWins(Tail(events), seen,
                    [ i \in 1..Len(normalized) |->
                        IF normalized[i].id = canonical.id THEN canonical
                        ELSE normalized[i] ], clock)
           ELSE IF event.id \in seen
             THEN UfcLoopLastWins(Tail(events), seen, normalized, clock)
           ELSE UfcLoopLastWins(Tail(events), seen \cup { event.id },
                  Append(normalized, canonical), clock)

\* The loop of normalizeUfcEvents over the entries still to visit.
RECURSIVE UfcLoop(_, _, _, _)
UfcLoop(events, seen, normalized, clock) ==
  IF events = << >> THEN normalized
  ELSE LET event == Head(events)
           competition == pickMainUfcCompetition(event.competitions)
           startTime == toISO(Nullish(event.date, UfcField(competition, "date")))
       IN  IF Falsy(event.id) \/ event.id \in seen
             THEN UfcLoop(Tail(events), seen, normalized, clock)
           ELSE IF startTime = Undefined \/ ~isWithinDefaultWindow(startTime, clock)
             THEN UfcLoop(Tail(events), seen \cup { event.id }, normalized, clock)
           ELSE UfcLoop(Tail(events), seen \cup { event.id },
                        Append(normalized, UfcCanonical(event, competition, startTime)),
                        clock)

\* normalizeUfcEvents(data), with data.events ?? [] given as `events`.
normalizeUfcEvents(events, clock) == UfcLoop(events, { }, << >>, clock)

\* ------------------------------------------------------------ esports page
\* s.startsWith(prefix)
StartsWith(s, prefix) ==
  Len(s) >= Len(prefix) /\ SubSeq(s, 1, Len(prefix)) = prefix

\* s.includes(part)
Includes(s, part) ==
  \E i \in 1..(Len(s) - Len(part) + 1) : SubSeq(s, i, i + Len(part) - 1) = part

\* The non-empty pieces of s.split(/\s+/): the empty pieces a leading or
\* trailing blank yields match none of the code's class tests.
RECURSIVE SplitWords(_, _, _)
SplitWords(s, i, word) ==
  IF i > Len(s) THEN (IF word = "" THEN << >> ELSE << word >>)
  ELSE IF IsSpace(CharAt(s, i))
    THEN (IF word = "" THEN << >> ELSE << word >>) \o SplitWords(s, i + 1, "")
  ELSE SplitWords(s, i + 1, word \o CharAt(s, i))

ClassList(classAttr) == SplitWords(classAttr, 1, "")

\* cleanText: whitespace runs collapsed to one blank, trimmed; undefined when
\* nothing is left.
cleanText(value) ==
  IF Falsy(value) THEN Undefined
  ELSE LET trimmed == Join(SplitWords(value, 1, ""), " ")
       IN  IF Len(trimmed) > 0 THEN trimmed ELSE Undefined

\* Number.parseInt(text, 10): blanks, an optional sign, decimal digits; NaN
\* (None) when no digit follows.
parseInt(text) ==
  LET body == TrimStart(text)
      signed == Len(body) > 0 /\ CharAt(body, 1) \in { "-", "+" }
      first == IF signed THEN 2 ELSE 1
  IN  IF first > Len(body) \/ ~IsDigit(CharAt(body, first)) THEN None
      ELSE IF signed /\ CharAt(body, 1) = "-"
        THEN Some(0 - DigitRun(body, first, 0))
      ELSE Some(DigitRun(body, first, 0))

\* new URL(href, "https://liquipedia.net").toString(): None when the
\* constructor throws (an absolute reference without a host).
ResolveUrl(href) ==
  IF href = "http://" \/ href = "https://" THEN None
  ELSE IF StartsWith(href, "https://") \/ StartsWith(href, "http://") THEN Some(href)
  ELSE IF StartsWith(href, "/") THEN Some("https://liquipedia.net" \o href)
  ELSE Some("https://liquipedia.net/" \o href)

\* A <td>: its textContent and its first <a> (None, or Some of text and href).
HtmlCell(text, link) == [ text |-> text, link |-> link ]
HtmlLink(text, href) == [ text |-> text, href |-> href ]

\* A <tr>: its class attribute, the data-timestamp attribute of the first
\* descendant carrying one, and its <td> cells.
HtmlRow(classAttr, timestampAttr, cells) ==
  [ classAttr |-> classAttr, timestampAttr |-> timestampAttr, cells |-> cells ]

\* The row filter of normalizeLegacyCs2Matches.
IsMatchRow(row) ==
  /\ ~Falsy(row.classAttr)
  /\ \E i \in 1..Len(ClassList(row.classAttr)) :
       LET className == ClassList(row.classAttr)[i]
       IN  \/ StartsWith(className, "recent-matches")
           \/ StartsWith(className, "upcoming-matches")
           \/ StartsWith(className, "upcoming-match")
           \/ className = "match-row"

RECURSIVE FilterMatchRows(_)
FilterMatchRows(rows) ==
  IF rows = << >> THEN << >>
  ELSE IF IsMatchRow(Head(rows))
    THEN << Head(rows) >> \o FilterMatchRows(Tail(rows))
  ELSE FilterMatchRows(Tail(rows))

\* cells[i]?.textContent ?? undefined, i counted from 0 as in the code
CellText(cells, i) == IF i + 1 <= Len(cells) THEN cells[i + 1].text ELSE Undefined

SomeClassIncludes(rowClasses, part) ==
  \E i \in 1..Len(rowClasses) : Includes(rowClasses[i], part)

\* LegacyOutcome that looks for the loss class before the win class.
LegacyOutcomeLossFirst(rowClasses) ==
  IF SomeClassIncludes(rowClasses, "bg-lose") THEN "LOSS"
  ELSE IF SomeClassIncludes(rowClasses, "bg-win") THEN "WIN"
  ELSE IF SomeClassIncludes(rowClasses, "bg-draw")
          \/ SomeClassIncludes(rowClasses, "bg-tie") THEN "DRAW"
  ELSE Undefined

LegacyOutcome(rowClasses) ==
  IF SomeClassIncludes(rowClasses, "bg-win") THEN "WIN"
  ELSE IF SomeClassIncludes(rowClasses, "bg-lose") THEN "LOSS"
  ELSE IF SomeClassIncludes(rowClasses, "bg-draw")
          \/ SomeClassIncludes(rowClasses, "bg-tie") THEN "DRAW"
  ELSE Undefined

\* The fewest <td> cells a row needs to be read.
MinLegacyCells == 7

\* What the loop body of normalizeLegacyCs2Matches reads from a row that
\* passed the timestamp and cell-count checks; url is None when new URL throws.
LegacyRowFields(row) ==
  LET cells == row.cells
      tournamentCell == cells[6]
      tournamentLink == tournamentCell.link
      competition == cleanText(IF tournamentLink # None THEN tournamentLink[1].text
                               ELSE tournamentCell.text)
      tournamentHref == IF tournamentLink # None THEN tournamentLink[1].href
                        ELSE Undefined
      tierText == cleanText(CellText(cells, 1))
      typeText == cleanText(CellText(cells, 2))
      scoreText == cleanText(CellText(cells, 6))
      opponentText == cleanText(CellText(cells, 7))
      statusParts == FilterBoolean(<< tierText, typeText >>)
      subtitleParts == FilterBoolean(<< opponentText, competition >>)
      hasNumericScore ==
        IF Falsy(scoreText) THEN FALSE
        ELSE \E i \in 1..Len(scoreText) : IsDigit(CharAt(scoreText, i))
  IN  [ urlThrows |-> ~Falsy(tournamentHref) /\ ResolveUrl(tournamentHref) = None,
        url |-> IF Falsy(tournamentHref) \/ ResolveUrl(tournamentHref) = None
                  THEN Undefined ELSE ResolveUrl(tournamentHref)[1],
        id |-> "LEGACY_CS2-" \o
                 Nullish(row.timestampAttr,
                         Nullish(competition, "match") \o "-" \o
                           Nullish(opponentText, "opponent")),
        title |-> IF ~Falsy(opponentText) THEN "Legacy vs " \o opponentText
                  ELSE Nullish(competition, "Legacy match"),
        competition |-> competition,
        status |-> IF Len(statusParts) > 0 THEN Join(statusParts, " · ") ELSE Undefined,
        subtitle |-> IF Len(subtitleParts) > 0 THEN Join(subtitleParts, " · ")
                     ELSE Undefined,
        result |-> IF hasNumericScore THEN scoreText ELSE Undefined,
        outcome |-> LegacyOutcome(ClassList(Nullish(row.classAttr, ""))) ]

\* The loop of normalizeLegacyCs2Matches over the rows still to visit.  The
\* result is [threw, events]: threw when toISOString meets a timestamp outside
\* the representable range (RangeError) or new URL rejects a link (TypeError).
RECURSIVE LegacyLoop(_, _, _, _)
LegacyLoop(rows, seen, events, clock) ==
  IF rows = << >> THEN [ threw |-> FALSE, events |-> events ]
  ELSE LET row == Head(rows)
           timestamp == IF Falsy(row.timestampAttr) THEN None
                        ELSE parseInt(row.timestampAttr)
           outOfRange == timestamp # None /\ timestamp[1] \notin Instants
           startTimeUTC == IF timestamp = None \/ outOfRange THEN Undefined
                           ELSE ToISOString(timestamp[1])
           fields == LegacyRowFields(row)
       IN  IF outOfRange THEN [ threw |-> TRUE, events |-> << >> ]
           ELSE IF startTimeUTC = Undefined
                   \/ ~isWithinWindow(startTimeUTC, LEGACY_RANGE_MONTHS_AHEAD,
                                      LEGACY_RANGE_MONTHS_BEHIND, clock)
             THEN LegacyLoop(Tail(rows), seen, events, clock)
           ELSE IF Len(row.cells) < MinLegacyCells
             THEN LegacyLoop(Tail(rows), seen, events, clock)
           ELSE IF fields.urlThrows THEN [ threw |-> TRUE, events |-> << >> ]
           ELSE IF fields.id \in seen
             THEN LegacyLoop(Tail(rows), seen, events, clock)
           ELSE LegacyLoop(Tail(rows), seen \cup { fields.id },
                  Append(events,
                    CanonicalEvent(fields.id, "LEGACY_CS2", fields.title,
                      fields.competition, Undefined, startTimeUTC, Undefined,
                      Undefined, fields.status, fields.url, fields.subtitle,
                      fields.result, fields.outcome)),
                  clock)

\* normalizeLegacyCs2Matches(html), with the <tr> rows of the parsed html.
normalizeLegacyCs2Matches(rows, clock) ==
  LegacyLoop(FilterMatchRows(rows), { }, << >>, clock)

\* ------------------------------------------------------------ fetch client
\* The error fetchJson throws for a request that could not be answered.
FetchError(url) == "Failed to fetch " \o url

\* What a request settles with: a failure, or the parsed body.
Failure == [ ok |-> FALSE, body |-> << >> ]
Success(body) == [ ok |-> TRUE, body |-> body ]

\* A request is known by its endpoint: the query string the url builders
\* append (a limit and the window's dates, or the wiki's parse action) decides
\* nothing in the code and is left out.

\* ---------------------------------------------------- club-schedule adapter
\* An async call of fetchTeamSchedule: pc is where it stands, index the
\* endpoint (counted from 1) whose request it awaits, requested the requests
\* it has sent and responses what they settled with, in order.
ScheduleIdle ==
  [ pc |-> "idle", index |-> 0, lastError |-> Undefined, data |-> << >>,
    requested |-> << >>, responses |-> << >> ]

\* ScheduleAccepts without the test for events.
ScheduleAcceptsAlways(events, index, count) == TRUE

\* The test that lets a response through to `return data`:
\* not (!hasEvents && index < endpoints.length - 1).
ScheduleAccepts(events, index, count) == ~(Len(events) = 0 /\ index < count)

\* fetchTeamSchedule up to its first await.
fetchTeamScheduleStart(source) ==
  [ ScheduleIdle EXCEPT !.pc = "awaiting", !.index = 1,
                        !.requested = << TEAM_SOURCES[source].endpoints[1] >> ]

\* fetchTeamScheduleResume that asks a failed endpoint once more, as long as
\* no endpoint has been asked twice.
fetchTeamScheduleResumeRetry(task, source, response) ==
  LET endpoints == TEAM_SOURCES[source].endpoints
      lastError == IF response.ok THEN task.lastError
                   ELSE FetchError(endpoints[task.index])
      logged == [ task EXCEPT !.responses = Append(@, response),
                              !.lastError = lastError ]
  IN  IF response.ok /\ ScheduleAccepts(response.body, task.index, Len(endpoints))
        THEN [ logged EXCEPT !.pc = "returned", !.data = response.body ]
      ELSE IF ~response.ok /\ Len(task.requested) = task.index
        THEN [ logged EXCEPT !.requested = Append(@, endpoints[task.index]) ]
      ELSE IF task.index < Len(endpoints)
        THEN [ logged EXCEPT !.index = @ + 1,
                             !.requested = Append(@, endpoints[task.index + 1]) ]
      ELSE IF lastError # Undefined THEN [ logged EXCEPT !.pc = "thrown" ]
      ELSE [ logged EXCEPT !.pc = "returned" ]

\* fetchTeamSchedule from the settling of the awaited request to its next
\* await, its return or its throw.
fetchTeamScheduleResume(task, source, response) ==
  LET endpoints == TEAM_SOURCES[source].endpoints
      lastError == IF response.ok THEN task.lastError
                   ELSE FetchError(endpoints[task.index])
      logged == [ task EXCEPT !.responses = Append(@, response),
                              !.lastError = lastError ]
  IN  IF response.ok /\ ScheduleAccepts(response.body, task.index, Len(endpoints))
        THEN [ logged EXCEPT !.pc = "returned", !.data = response.body ]
      ELSE IF task.index < Len(endpoints)
        THEN [ logged EXCEPT !.index = @ + 1,
                             !.requested = Append(@, endpoints[task.index + 1]) ]
      ELSE IF lastError # Undefined THEN [ logged EXCEPT !.pc = "thrown" ]
      ELSE [ logged EXCEPT !.pc = "returned" ]

\* -------------------------------------------------- club-scoreboard adapter
ScoreboardIdle ==
  [ pc |-> "idle", index |-> 0, lastError |-> Undefined, aggregated |-> << >>,
    requested |-> << >>, responses |-> << >> ]

\* A filter that lets every scoreboard entry through.
matchesTeamAlways(event, teamId) == TRUE

\* competitors.some(c => c.team?.id === teamId) on the first competition
matchesTeam(event, teamId) ==
  \E i \in 1..Len(CompetitorsOf(FirstCompetition(event))) :
    CompetitorsOf(FirstCompetition(event))[i].teamId = teamId

RECURSIVE FilterTeam(_, _)
FilterTeam(events, teamId) ==
  IF events = << >> THEN << >>
  ELSE IF matchesTeam(Head(events), teamId)
    THEN << Head(events) >> \o FilterTeam(Tail(events), teamId)
  ELSE FilterTeam(Tail(events), teamId)

\* The test after the loop: aggregated.length === 0 && lastError.
ScoreboardThrows(aggregated, lastError) ==
  Len(aggregated) = 0 /\ lastError # Undefined

\* fetchTeamScoreboardEvents up to its first await.
fetchTeamScoreboardEventsStart(source) ==
  IF Len(TEAM_SOURCES[source].scoreboardEndpoints) = 0
    THEN [ ScoreboardIdle EXCEPT !.pc = "returned" ]
    ELSE [ ScoreboardIdle EXCEPT
             !.pc = "awaiting", !.index = 1,
             !.requested = << TEAM_SOURCES[source].scoreboardEndpoints[1] >> ]

\* fetchTeamScoreboardEvents from the settling of the awaited request on.
fetchTeamScoreboardEventsResume(task, source, response) ==
  LET endpoints == TEAM_SOURCES[source].scoreboardEndpoints
      aggregated == IF response.ok
                      THEN task.aggregated
                             \o FilterTeam(response.body, TEAM_SOURCES[source].teamId)
                      ELSE task.aggregated
      lastError == IF response.ok THEN task.lastError
                   ELSE FetchError(endpoints[task.index])
      logged == [ task EXCEPT !.responses = Append(@, response),
                              !.lastError = lastError,
                              !.aggregated = aggregated ]
  IN  IF task.index < Len(endpoints)
        THEN [ logged EXCEPT !.index = @ + 1,
                             !.requested = Append(@, endpoints[task.index + 1]) ]
      ELSE IF ScoreboardThrows(aggregated, lastError)
        THEN [ logged EXCEPT !.pc = "thrown" ]
      ELSE [ logged EXCEPT !.pc = "returned" ]

\* ----------------------------------------------------------------- promises
\* A promise of a list of events: pending, fulfilled with value, or rejected
\* with error.
Idle == [ state |-> "idle", value |-> << >>, error |-> Undefined ]
Pending == [ state |-> "pending", value |-> << >>, error |-> Undefined ]
Fulfilled(value) == [ state |-> "fulfilled", value |-> value, error |-> Undefined ]
Rejected(error) == [ state |-> "rejected", value |-> << >>, error |-> error ]

Settled(promise) == promise.state \in { "fulfilled", "rejected" }

\* Promise.all over `inputs`, seen when one of them has just settled:
\* rejected as soon as an input is rejected, fulfilled when all are fulfilled.
PromiseAll(inputs) ==
  IF \E i \in 1..Len(inputs) : inputs[i].state = "rejected"
    THEN Rejected(inputs[CHOOSE i \in 1..Len(inputs) :
                           inputs[i].state = "rejected"].error)
  ELSE IF \A i \in 1..Len(inputs) : inputs[i].state = "fulfilled"
    THEN Fulfilled([ i \in 1..Len(inputs) |-> inputs[i].value ])
  ELSE Pending

\* The promise an async adapter call returned, from the call's position.
ScheduleOutcome(task) ==
  IF task.pc = "returned" THEN Fulfilled(task.data)
  ELSE IF task.pc = "thrown" THEN Rejected(task.lastError)
  ELSE Pending

ScoreboardOutcome(task) ==
  IF task.pc = "returned" THEN Fulfilled(task.aggregated)
  ELSE IF task.pc = "thrown" THEN Rejected(task.lastError)
  ELSE Pending

\* fetchClubEvents normalizing the scoreboard's events in both places.
fetchClubEventsScoreboardTwice(current, source, schedule, scoreboard, clock) ==
  LET joined == PromiseAll(<< ScheduleOutcome(schedule), ScoreboardOutcome(scoreboard) >>)
  IN  IF current.state # "pending" THEN current
      ELSE IF joined.state = "fulfilled"
        THEN Fulfilled(mergeAndSortEvents(
               << normalizeTeamEvents(joined.value[2], source, clock),
                  normalizeTeamEvents(joined.value[2], source, clock) >>))
      ELSE joined


\* fetchManchesterUnitedEvents / fetchLeedsUnitedEvents after their await of
\* Promise.all([fetchTeamSchedule, fetchTeamScoreboardEvents]); `current` is
\* the promise the call returned, which settles once.
fetchClubEvents(current, source, schedule, scoreboard, clock) ==
  LET joined == PromiseAll(<< ScheduleOutcome(schedule), ScoreboardOutcome(scoreboard) >>)
  IN  IF current.state # "pending" THEN current
      ELSE IF joined.state = "fulfilled"
        THEN Fulfilled(mergeAndSortEvents(
               << normalizeTeamEvents(joined.value[1], source, clock),
                  normalizeTeamEvents(joined.value[2], source, clock) >>))
      ELSE joined

\* fetchUfcEvents after its await of fetchJson.
fetchUfcEvents(response, clock) ==
  IF ~response.ok THEN Rejected(FetchError(UFC_SCOREBOARD_ENDPOINT))
  ELSE Fulfilled(normalizeUfcEvents(response.body, clock))

\* fetchLegacyCs2Events after its await of fetchJson; the body is
\* data.parse?.text?.["*"]: None, or Some of the page's <tr> rows.
fetchLegacyCs2Events(response, clock) ==
  IF ~response.ok THEN Rejected(FetchError(LIQUIPEDIA_ENDPOINT))
  ELSE IF response.body = None THEN Fulfilled(<< >>)
  ELSE LET normalized == normalizeLegacyCs2Matches(response.body[1], clock)
       IN  IF normalized.threw THEN Rejected("Invalid row")
           ELSE Fulfilled(normalized.events)

\* getCalendarEvents after its await of Promise.all over the four fetches.
getCalendarEvents(current, manUnited, leeds, legacyCs2, ufc) ==
  LET joined == PromiseAll(<< manUnited, leeds, legacyCs2, ufc >>)
  IN  IF current.state # "pending" THEN current
      ELSE IF joined.state = "fulfilled"
        THEN Fulfilled(sortEvents(joined.value[1] \o joined.value[2]
                                    \o joined.value[3] \o joined.value[4]))
      ELSE joined

\* --------------------------------------------------------- route handler
\* publicFields that keeps the status field.
publicFieldsKeepsStatus(event) ==
  [ event EXCEPT !.venue = Undefined, !.location = Undefined,
                 !.subtitle = Undefined ]

\* const { venue, location, status, subtitle, ...publicFields } = event
publicFields(event) ==
  [ event EXCEPT !.venue = Undefined, !.location = Undefined,
                 !.status = Undefined, !.subtitle = Undefined ]

\* A GET call: pc is where it stands; status and body are those of the
\* NextResponse it returned, the body a record of the JSON's top-level keys.
RouteIdle == [ pc |-> "idle", status |-> 0, body |-> None ]

\* GET without its try / catch.
GETUncaught(current, awaited) ==
  IF current.pc # "awaiting" THEN current
  ELSE IF awaited.state = "fulfilled"
    THEN [ pc |-> "returned", status |-> 200,
           body |-> Some([ events |-> [ i \in 1..Len(awaited.value) |->
                                          publicFields(awaited.value[i]) ] ]) ]
  ELSE IF awaited.state = "rejected"
    THEN [ pc |-> "thrown", status |-> 0, body |-> None ]
  ELSE current

\* GET after its await of getCalendarEvents(), `awaited` being that promise.
GET(current, awaited) ==
  IF current.pc # "awaiting" THEN current
  ELSE IF awaited.state = "fulfilled"
    THEN [ pc |-> "returned", status |-> 200,
           body |-> Some([ events |-> [ i \in 1..Len(awaited.value) |->
                                          publicFields(awaited.value[i]) ] ]) ]
  ELSE IF awaited.state = "rejected"
    THEN [ pc |-> "returned", status |-> 500,
           body |-> Some([ error |-> "Failed to load events" ]) ]
  ELSE current

\* ------------------------------------------------- upstream payloads
\* The fixtures, rows and cards the upstream answers of the model are made of.
\* Instants are chosen around the clock's first reading, 0: inside the
\* window, on its earliest day, and shared between sources.
MUnitedHome(score) == RawCompetitor("home", "360", "Manchester United", score)
LeedsAway(score) == RawCompetitor("away", "357", "Leeds United", score)
LeedsHome(score) == RawCompetitor("home", "357", "Leeds United", score)
BurnleyAway(score) == RawCompetitor("away", "379", "Burnley", score)
BurnleyHome(score) == RawCompetitor("home", "379", "Burnley", score)
EvertonAway(score) == RawCompetitor("away", "368", "Everton", score)

\* Manchester United v Leeds United as a schedule lists it before kick-off.
DerbyScheduled ==
  RawTeamEvent("401", ProviderDate(1), "Prem", "Regular Season", "2025-26",
    << RawCompetition(ProviderDate(2),
         Some(RawVenue("Old Trafford", "Manchester", "England")),
         << MUnitedHome(Undefined), LeedsAway(Undefined) >>,
         "pre", "Scheduled", "Scheduled") >>)

\* The same fixture as a scoreboard lists it after full time.
DerbyPlayed ==
  RawTeamEvent("401", ProviderDate(1), "Prem", "Regular Season", "2025-26",
    << RawCompetition(ProviderDate(2),
         Some(RawVenue("Old Trafford", "Manchester", "England")),
         << MUnitedHome("2"), LeedsAway("1") >>,
         "post", "FT", "Full Time") >>)

\* A fixture without a provider id, at the derby's instant.
LeedsNoId ==
  RawTeamEvent(Undefined, ProviderDate(2), Undefined, "Regular Season", Undefined,
    << RawCompetition(Undefined, None, << LeedsHome(Undefined), BurnleyAway(Undefined) >>,
         "pre", Undefined, "Scheduled") >>)

\* A fixture whose provider id is the rendering of the derby's instant.
LeedsIdIsDate ==
  RawTeamEvent(ToISOString(2), ProviderDate(3), "Champ", Undefined, Undefined,
    << RawCompetition(ProviderDate(3), None, << BurnleyHome("1"), LeedsAway("1") >>,
         "post", "FT", "Full Time") >>)

\* A fixture on the earliest day of the default window of a clock reading 0.
LeedsEarliest ==
  RawTeamEvent("390", ProviderDate(subMonths(0, DEFAULT_RANGE_MONTHS_BEHIND)),
    "Champ", Undefined, Undefined,
    << RawCompetition(Undefined, None, << LeedsHome("0"), BurnleyAway("3") >>,
         "post", "FT", "Full Time") >>)

\* A fixture whose date is not a date.
UnitedNoDate ==
  RawTeamEvent("399", "TBA", "Prem", Undefined, Undefined,
    << RawCompetition(Undefined, None, << MUnitedHome(Undefined), EvertonAway(Undefined) >>,
         "pre", Undefined, "Postponed") >>)

\* A fixture after the derby, a day before the window closes for a clock at 0.
UnitedLate ==
  RawTeamEvent("420", ProviderDate(addMonths(0, DEFAULT_RANGE_MONTHS_AHEAD) - 1),
    "Prem", Undefined, Undefined,
    << RawCompetition(Undefined, None, << BurnleyHome(Undefined), MUnitedHome(Undefined) >>,
         "pre", Undefined, "Scheduled") >>)

\* A concluded home fixture of Leeds United, won 3 to 0.
LeedsHomeWin ==
  RawTeamEvent("440", ProviderDate(2), "Champ", Undefined, Undefined,
    << RawCompetition(ProviderDate(2), None, << LeedsHome("3"), BurnleyAway("0") >>,
         "post", "FT", "Full Time") >>)

\* A scoreboard entry of two other clubs.
OtherClubs ==
  RawTeamEvent("402", ProviderDate(2), "Prem", Undefined, Undefined,
    << RawCompetition(ProviderDate(2), None, << BurnleyHome("0"), EvertonAway("0") >>,
         "post", "FT", "Full Time") >>)

\* The bodies a club's schedule endpoint (counted from 1) may answer with.
SchedulePayloads(source, index) ==
  IF source = "MANCHESTER_UNITED"
    THEN { << >>, << UnitedLate, DerbyScheduled, UnitedNoDate >> }
  ELSE IF index = 1
    THEN { << >>, << DerbyScheduled, LeedsNoId >> }
  ELSE { << >>, << LeedsIdIsDate, LeedsEarliest, LeedsNoId >>, << LeedsHomeWin >> }

\* The bodies a league's scoreboard endpoint may answer with.
ScoreboardPayloads(source, index) ==
  IF index = 1
    THEN { << >>, << OtherClubs, DerbyPlayed, LeedsNoId >> }
  ELSE { << >>, << LeedsEarliest, DerbyPlayed >> }

TextCell(text) == HtmlCell(text, None)

\* A won match of the roster at the derby's instant.
RowWon ==
  HtmlRow("recent-matches-row bg-win", "2",
    << TextCell(""), TextCell("S-Tier"), TextCell("Offline"), TextCell(""),
       TextCell(""),
       HtmlCell("ESL Pro League", Some(HtmlLink("ESL Pro League", "/counterstrike/ESL"))),
       TextCell("2 : 1"), TextCell("NaVi") >>)

\* The same timestamp on a second row.
RowWonAgain ==
  HtmlRow("recent-matches-row bg-win", "2",
    << TextCell(""), TextCell("A-Tier"), TextCell("Online"), TextCell(""),
       TextCell(""), TextCell("Major"), TextCell("0 : 2"), TextCell("FaZe") >>)

\* An upcoming match before the derby, with seven cells.
RowUpcoming ==
  HtmlRow("upcoming-match", "1",
    << TextCell(""), TextCell(""), TextCell(""), TextCell(""), TextCell(""),
       TextCell("Major"), TextCell("vs") >>)

\* A row that is no match row, and a match row without a timestamp.
RowHeader == HtmlRow("table-header", "2", << >>)
RowNoTimestamp == HtmlRow("match-row", Undefined, << >>)

\* A match row whose timestamp lies beyond every date JavaScript represents.
RowBeyondRange == HtmlRow("match-row", "99999", << >>)

\* data.parse?.text?.["*"] of the wiki's answers.
LegacyPayloads ==
  { None,
    Some(<< RowHeader, RowWon, RowNoTimestamp, RowUpcoming, RowWonAgain >>),
    Some(<< RowWon, RowBeyondRange >>) }

UfcMain == RawUfcCompetition(ProviderDate(2), Some(2), "main", "Heavyweight", "HW",
                             << "Jones", "Aspinall" >>)
UfcPrelim == RawUfcCompetition(ProviderDate(2), Some(1), "prelims", "Flyweight", "FLW",
                               << "Pantoja", Undefined >>)

\* A card at the derby's instant, listed twice, and an entry without an id.
UfcCard == RawUfcEvent("600", ProviderDate(2), "UFC 300", << UfcPrelim, UfcMain >>)
UfcCardAgain == RawUfcEvent("600", ProviderDate(3), "UFC 300 (updated)", << UfcMain >>)
UfcNoId == RawUfcEvent(Undefined, ProviderDate(2), "UFC Fight Night", << >>)
UfcEarly == RawUfcEvent("598", Undefined, Undefined,
              << RawUfcCompetition(ProviderDate(0), None, Undefined, Undefined, "BW",
                                   << >>) >>)

UfcPayloads == { << >>, << UfcCard, UfcNoId, UfcCardAgain, UfcEarly >> }

\* ------------------------------------------------------------ the pipeline
VARIABLES
  now,        \* the clock: what new Date() reads, in days
  top,        \* the promise of the getCalendarEvents call
  club,       \* club[c]: the promise of fetchManchesterUnitedEvents / fetchLeedsUnitedEvents
  sched,      \* sched[c]: the club's fetchTeamSchedule call
  board,      \* board[c]: the club's fetchTeamScoreboardEvents call
  legacy,     \* the promise of fetchLegacyCs2Events
  ufc,        \* the promise of fetchUfcEvents
  requests,   \* the endpoints fetchLegacyCs2Events and fetchUfcEvents have requested
  route,      \* the GET call that called getCalendarEvents
  fnInput,    \* the arguments of a function called on its own
  fnOutput    \* what that call returned, and the clock reading it ran under

pipeline == << top, club, sched, board, legacy, ufc, requests, route >>
standalone == << fnInput, fnOutput >>
vars == << now, top, club, sched, board, legacy, ufc, requests, route, fnInput, fnOutput >>

NotCalled == [ fn |-> "none" ]
NoOutput == [ done |-> FALSE, clock |-> 0, threw |-> FALSE, events |-> << >> ]
Output(clock, threw, events) ==
  [ done |-> TRUE, clock |-> clock, threw |-> threw, events |-> events ]

Init ==
  /\ now = 0
  /\ top = Idle
  /\ club = [ c \in ClubSources |-> Idle ]
  /\ sched = [ c \in ClubSources |-> ScheduleIdle ]
  /\ board = [ c \in ClubSources |-> ScoreboardIdle ]
  /\ legacy = Idle
  /\ ufc = Idle
  /\ requests = [ LEGACY_CS2 |-> << >>, UFC |-> << >> ]
  /\ route = RouteIdle
  /\ fnInput = NotCalled
  /\ fnOutput = NoOutput

\* The clock advances.
Tick ==
  /\ now < MaxTicks
  /\ now' = now + 1
  /\ UNCHANGED << pipeline, standalone >>

\* GET() is called and calls getCalendarEvents(): the four fetch functions
\* run, one after the other, up to their first await, getCalendarEvents awaits
\* Promise.all of them and GET awaits getCalendarEvents.
Call ==
  /\ top.state = "idle"
  /\ top' = Pending
  /\ route' = [ RouteIdle EXCEPT !.pc = "awaiting" ]
  /\ sched' = [ c \in ClubSources |-> fetchTeamScheduleStart(c) ]
  /\ board' = [ c \in ClubSources |-> fetchTeamScoreboardEventsStart(c) ]
  /\ club' = [ c \in ClubSources |-> Pending ]
  /\ legacy' = Pending
  /\ ufc' = Pending
  /\ requests' = [ LEGACY_CS2 |-> << LIQUIPEDIA_ENDPOINT >>,
                   UFC |-> << UFC_SCOREBOARD_ENDPOINT >> ]
  /\ UNCHANGED << now, standalone >>

\* The request a fetchTeamSchedule call awaits settles; the call runs on, and
\* with it whatever awaits it: the club fetch, getCalendarEvents and GET.
ScheduleSettles(c) ==
  /\ sched[c].pc = "awaiting"
  /\ \E response \in { Failure } \cup
                     { Success(body) : body \in SchedulePayloads(c, sched[c].index) } :
       /\ sched' = [ sched EXCEPT ![c] = fetchTeamScheduleResume(@, c, response) ]
       /\ club' = [ club EXCEPT ![c] = fetchClubEvents(@, c, sched'[c], board[c], now) ]
       /\ top' = getCalendarEvents(top, club'["MANCHESTER_UNITED"],
                                   club'["LEEDS_UNITED"], legacy, ufc)
       /\ route' = GET(route, top')
  /\ UNCHANGED << now, board, legacy, ufc, requests, standalone >>

\* The request a fetchTeamScoreboardEvents call awaits settles.
ScoreboardSettles(c) ==
  /\ board[c].pc = "awaiting"
  /\ \E response \in { Failure } \cup
                     { Success(body) : body \in ScoreboardPayloads(c, board[c].index) } :
       /\ board' = [ board EXCEPT
                       ![c] = fetchTeamScoreboardEventsResume(@, c, response) ]
       /\ club' = [ club EXCEPT ![c] = fetchClubEvents(@, c, sched[c], board'[c], now) ]
       /\ top' = getCalendarEvents(top, club'["MANCHESTER_UNITED"],
                                   club'["LEEDS_UNITED"], legacy, ufc)
       /\ route' = GET(route, top')
  /\ UNCHANGED << now, sched, legacy, ufc, requests, standalone >>

\* The wiki request settles.
LegacySettles ==
  /\ legacy.state = "pending"
  /\ \E response \in { Failure } \cup { Success(body) : body \in LegacyPayloads } :
       /\ legacy' = fetchLegacyCs2Events(response, now)
       /\ top' = getCalendarEvents(top, club["MANCHESTER_UNITED"],
                                   club["LEEDS_UNITED"], legacy', ufc)
       /\ route' = GET(route, top')
  /\ UNCHANGED << now, club, sched, board, ufc, requests, standalone >>

\* The combat-sports request settles.
UfcSettles ==
  /\ ufc.state = "pending"
  /\ \E response \in { Failure } \cup { Success(body) : body \in UfcPayloads } :
       /\ ufc' = fetchUfcEvents(response, now)
       /\ top' = getCalendarEvents(top, club["MANCHESTER_UNITED"],
                                   club["LEEDS_UNITED"], legacy, ufc')
       /\ route' = GET(route, top')
  /\ UNCHANGED << now, club, sched, board, legacy, requests, standalone >>

Next ==
  \/ Tick
  \/ Call
  \/ \E c \in ClubSources : ScheduleSettles(c)
  \/ \E c \in ClubSources : ScoreboardSettles(c)
  \/ LegacySettles
  \/ UfcSettles

Spec == Init /\ [][Next]_vars

\* The pipeline when every request that was issued settles: fetch resolves
\* or rejects each of them, so no adapter waits for ever on a request.  The
\* fairness is on the adapter's own part of each settling step, the step
\* that answers the request it awaits.
\* One cycle at one reading of the clock: the clock takes no part in which
\* requests are issued and which settle.
NextLive ==
  \/ Call
  \/ \E c \in ClubSources : ScheduleSettles(c)
  \/ \E c \in ClubSources : ScoreboardSettles(c)
  \/ LegacySettles
  \/ UfcSettles

SpecLive ==
  /\ Init
  /\ [][NextLive]_vars
  /\ \A c \in ClubSources :
       WF_sched(/\ sched[c].pc = "awaiting"
                /\ \E response \in { Failure } \cup
                       { Success(body) : body \in SchedulePayloads(c, sched[c].index) } :
                     sched' = [ sched EXCEPT ![c] = fetchTeamScheduleResume(@, c, response) ])
  /\ \A c \in ClubSources :
       WF_board(/\ board[c].pc = "awaiting"
                /\ \E response \in { Failure } \cup
                       { Success(body) : body \in ScoreboardPayloads(c, board[c].index) } :
                     board' = [ board EXCEPT
                                  ![c] = fetchTeamScoreboardEventsResume(@, c, response) ])
  /\ WF_legacy(/\ legacy.state = "pending"
               /\ \E response \in { Failure } \cup
                      { Success(body) : body \in LegacyPayloads } :
                    legacy' = fetchLegacyCs2Events(response, now))
  /\ WF_ufc(/\ ufc.state = "pending"
            /\ \E response \in { Failure } \cup { Success(body) : body \in UfcPayloads } :
                 ufc' = fetchUfcEvents(response, now))

\* ------------------------------------------- mergeAndSortEvents on its own
\* Canonical events of one club that share ids and instants and differ in
\* their title, so that two entries of one id can be told apart.
MergeEvent(id, t, title) ==
  CanonicalEvent("LEEDS_UNITED-" \o id, "LEEDS_UNITED", title, Undefined, Undefined,
                 ToISOString(t), Undefined, Undefined, Undefined, Undefined,
                 Undefined, Undefined, Undefined)

MergeEvents ==
  { MergeEvent("401", 1, "from schedule"), MergeEvent("401", 1, "from scoreboard"),
    MergeEvent("401", 2, "from schedule"), MergeEvent("402", 1, "from schedule"),
    MergeEvent("402", 2, "from schedule"), MergeEvent("402", 2, "from scoreboard") }

\* The sequences over `universe` of at most `longest` elements.
ListsOf(universe, longest) ==
  UNION { [ 1..n -> universe ] : n \in 0..longest }

\* A call mergeAndSortEvents(first, second), as both club fetches make it.
InitMerge ==
  /\ now = 0
  /\ top = Idle
  /\ club = [ c \in ClubSources |-> Idle ]
  /\ sched = [ c \in ClubSources |-> ScheduleIdle ]
  /\ board = [ c \in ClubSources |-> ScoreboardIdle ]
  /\ legacy = Idle
  /\ ufc = Idle
  /\ requests = [ LEGACY_CS2 |-> << >>, UFC |-> << >> ]
  /\ route = RouteIdle
  /\ fnInput \in { [ fn |-> "mergeAndSortEvents", sources |-> << first, second >> ] :
                     first \in ListsOf(MergeEvents, MaxListLen),
                     second \in ListsOf(MergeEvents, MaxListLen) }
  /\ fnOutput = NoOutput

MergeReturns ==
  /\ fnInput.fn = "mergeAndSortEvents"
  /\ ~fnOutput.done
  /\ fnOutput' = Output(now, FALSE, mergeAndSortEvents(fnInput.sources))
  /\ UNCHANGED << now, pipeline, fnInput >>

NextMerge == MergeReturns

SpecMerge == InitMerge /\ [][NextMerge]_vars

\* ---------------------------------------------- normalizers on their own
\* The days around the ends of a window of a clock reading 0.
WindowEdges(monthsAhead, monthsBehind) ==
  { subMonths(0, monthsBehind) - 1, subMonths(0, monthsBehind),
    subMonths(0, monthsBehind) + 1, addMonths(0, monthsAhead),
    addMonths(0, monthsAhead) + 1 }

\* A fixture with the given event-level date and no competition.
DatedFixture(id, date) ==
  RawTeamEvent(id, date, "Prem", Undefined, Undefined, << >>)

\* A fixture whose first competition carries a date of its own.
CompetitionDatedFixture(id, date, competitionDate) ==
  RawTeamEvent(id, date, "Prem", Undefined, Undefined,
    << RawCompetition(competitionDate, None,
         << LeedsHome(Undefined), MUnitedHome(Undefined) >>,
         "pre", Undefined, "Scheduled") >>)

NormTeamFixtures ==
  { DatedFixture(Undefined, ProviderDate(t)) :
      t \in WindowEdges(DEFAULT_RANGE_MONTHS_AHEAD, DEFAULT_RANGE_MONTHS_BEHIND) }
  \cup { DatedFixture("401", date) : date \in { Undefined, "", "TBA" } }
  \cup { CompetitionDatedFixture("402", ProviderDate(0),
            ProviderDate(addMonths(0, LEGACY_RANGE_MONTHS_AHEAD))),
         CompetitionDatedFixture("403",
            ProviderDate(addMonths(0, LEGACY_RANGE_MONTHS_AHEAD)), ProviderDate(0)),
         \* a provider id that is the empty string
         DatedFixture("", ProviderDate(0)),
         \* an opponent whose name is the empty string
         RawTeamEvent("404", ProviderDate(0), Undefined, Undefined, Undefined,
           << RawCompetition(Undefined, None,
                << LeedsHome(Undefined), RawCompetitor("away", "379", "", Undefined) >>,
                "pre", Undefined, Undefined) >>) }

\* The score strings of a competitor: absent, empty, numbers, and a text
\* without a digit.
ScoreTexts == { Undefined, "", "0", "3", "10", "P" }

\* Manchester United against Leeds United as a provider lists it once play
\* has begun, on the day the clock first reads.
ConcludedFixture(unitedAtHome, unitedScore, leedsScore, state, detail, description) ==
  RawTeamEvent("430", ProviderDate(0), "Prem", Undefined, Undefined,
    << RawCompetition(Undefined, None,
         IF unitedAtHome
           THEN << MUnitedHome(unitedScore), LeedsAway(leedsScore) >>
           ELSE << LeedsHome(leedsScore),
                   RawCompetitor("away", "360", "Manchester United", unitedScore) >>,
         state, detail, description) >>)

ConcludedFixtures ==
  { ConcludedFixture(unitedAtHome, unitedScore, leedsScore, state, status[1], status[2]) :
      unitedAtHome \in BOOLEAN, unitedScore \in ScoreTexts, leedsScore \in ScoreTexts,
      state \in { "post", "in" },
      status \in { << "FT", "Full Time" >>, << Undefined, "Postponed" >>,
                   << "", Undefined >> } }

NormUfcEvents ==
  { RawUfcEvent("600", ProviderDate(t), "UFC 300", << >>) :
      t \in WindowEdges(DEFAULT_RANGE_MONTHS_AHEAD, DEFAULT_RANGE_MONTHS_BEHIND) }
  \cup { RawUfcEvent("601", Undefined, "UFC 301", << UfcMain >>),
         RawUfcEvent("602", "TBA", "UFC 302", << UfcMain >>),
         RawUfcEvent("603", Undefined, "UFC 303", << >>),
         \* a card whose name is the empty string
         RawUfcEvent("604", ProviderDate(0), "", << UfcMain >>),
         \* a second listing of card 600, with another name, day and bout
         RawUfcEvent("600", ProviderDate(1), "UFC 300 (updated)", << UfcPrelim >>),
         \* entries without a provider id
         RawUfcEvent(Undefined, ProviderDate(0), "UFC Fight Night", << UfcMain >>),
         RawUfcEvent("", ProviderDate(0), "UFC Fight Night", << >>) }

\* Eight cells, as a row of the wiki's match table has them.
LegacyCells ==
  << TextCell(""), TextCell("S-Tier"), TextCell("Offline"), TextCell(""),
     TextCell(""), TextCell("Major"), TextCell("1 : 2"), TextCell("NaVi") >>

NormLegacyRows ==
  { HtmlRow("match-row bg-lose", ToString(t), LegacyCells) :
      t \in WindowEdges(LEGACY_RANGE_MONTHS_AHEAD, LEGACY_RANGE_MONTHS_BEHIND) }
  \cup { HtmlRow("match-row", timestampAttr, LegacyCells) :
           timestampAttr \in { Undefined, "", "soon" } }
  \cup { HtmlRow("table-header", "0", LegacyCells),
         \* a timestamp beyond every date JavaScript represents
         HtmlRow("match-row", "99999", LegacyCells),
         \* a tournament link that is no URL
         HtmlRow("match-row", "0",
           [ LegacyCells EXCEPT ![6] = HtmlCell("Major", Some(HtmlLink("Major", "http://"))) ]),
         \* cells without any text
         HtmlRow("match-row", "1", [ i \in 1..8 |-> TextCell("") ]),
         \* seven cells: everything up to the score, no opponent cell
         HtmlRow("upcoming-match", "2", SubSeq(LegacyCells, 1, 7)),
         \* six cells
         HtmlRow("upcoming-match", "3", SubSeq(LegacyCells, 1, 6)) }

\* Match rows inside the legacy window at every clock reading, one for each
\* combination of style classes and score text.
LegacyStyledRows ==
  { HtmlRow(classAttr, "1", [ LegacyCells EXCEPT ![7] = TextCell(scoreText) ]) :
      classAttr \in { "match-row", "match-row bg-win", "match-row bg-lose",
                      "match-row bg-draw", "bg-tie match-row",
                      "match-row bg-lose bg-win", "match-row bg-tie  bg-lose",
                      "match-row brkts-bg-winner" },
      scoreText \in { "2 : 1", "  0 :  2 ", "vs", "W : FF", " " } }

InitNorm ==
  /\ now = 0
  /\ top = Idle
  /\ club = [ c \in ClubSources |-> Idle ]
  /\ sched = [ c \in ClubSources |-> ScheduleIdle ]
  /\ board = [ c \in ClubSources |-> ScoreboardIdle ]
  /\ legacy = Idle
  /\ ufc = Idle
  /\ requests = [ LEGACY_CS2 |-> << >>, UFC |-> << >> ]
  /\ route = RouteIdle
  /\ fnInput = NotCalled
  /\ fnOutput = NoOutput

\* normalizeTeamEvents(events, source) is called and returns.
NormalizeTeam ==
  /\ ~fnOutput.done
  /\ \E source \in ClubSources,
          events \in ListsOf(NormTeamFixtures, MaxPayloadLen)
                       \cup { << fixture >> : fixture \in ConcludedFixtures } :
       /\ fnInput' = [ fn |-> "normalizeTeamEvents", source |-> source,
                       events |-> events ]
       /\ fnOutput' = Output(now, FALSE, normalizeTeamEvents(events, source, now))
  /\ UNCHANGED << now, pipeline >>

\* normalizeUfcEvents(data) is called and returns.
NormalizeUfc ==
  /\ ~fnOutput.done
  /\ \E events \in ListsOf(NormUfcEvents, MaxPayloadLen) :
       /\ fnInput' = [ fn |-> "normalizeUfcEvents", events |-> events ]
       /\ fnOutput' = Output(now, FALSE, normalizeUfcEvents(events, now))
  /\ UNCHANGED << now, pipeline >>

\* normalizeLegacyCs2Matches(html) is called and returns or throws.
NormalizeLegacy ==
  /\ ~fnOutput.done
  /\ \E rows \in ListsOf(NormLegacyRows, MaxPayloadLen)
                     \cup { << row >> : row \in LegacyStyledRows } :
       LET normalized == normalizeLegacyCs2Matches(rows, now)
       IN  /\ fnInput' = [ fn |-> "normalizeLegacyCs2Matches", events |-> rows ]
           /\ fnOutput' = Output(now, normalized.threw, normalized.events)
  /\ UNCHANGED << now, pipeline >>

\* The two windows the code asks isWithinWindow about: << ahead, behind >>.
WindowArguments ==
  { << DEFAULT_RANGE_MONTHS_AHEAD, DEFAULT_RANGE_MONTHS_BEHIND >>,
    << LEGACY_RANGE_MONTHS_AHEAD, LEGACY_RANGE_MONTHS_BEHIND >> }

\* The date strings of the days at and next to the ends of a window of the
\* clock's present reading, of a day inside it, and a string that is no date.
WindowDates(monthsAhead, monthsBehind) ==
  { ToISOString(t) :
      t \in { subMonths(now, monthsBehind) - 1, subMonths(now, monthsBehind),
              now, addMonths(now, monthsAhead), addMonths(now, monthsAhead) + 1 } }
  \cup { "TBA" }

\* What a call that returns a value other than a list of events returned.
Returned(clock, value) ==
  [ done |-> TRUE, clock |-> clock, threw |-> FALSE, events |-> << >>,
    value |-> value ]

\* isWithinWindow(dateISO, monthsAhead, monthsBehind) is called and returns.
WindowTest ==
  /\ ~fnOutput.done
  /\ \E months \in WindowArguments :
       \E dateISO \in WindowDates(months[1], months[2]) :
         /\ fnInput' = [ fn |-> "isWithinWindow", dateISO |-> dateISO,
                         monthsAhead |-> months[1], monthsBehind |-> months[2] ]
         /\ fnOutput' = Returned(now, isWithinWindow(dateISO, months[1], months[2], now))
  /\ UNCHANGED << now, pipeline >>

\* The sub-competitions pickMainUfcCompetition is called with: every card
\* segment (absent, main, another), absent and explicit match numbers on
\* both sides of 100, and a bout type that tells apart two candidates of one
\* segment and number.
PickMainCompetitions ==
  { RawUfcCompetition(ProviderDate(0), matchNumber, cardSegment, typeText, "X", << >>) :
      matchNumber \in { None, Some(1), Some(100), Some(101) },
      cardSegment \in { Undefined, "main", "prelims" },
      typeText \in { "A", "B" } }

\* One call of pickMainUfcCompetition. An absent list and an empty one are
\* both the empty sequence.
PickMain ==
  /\ ~fnOutput.done
  /\ \E competitions \in ListsOf(PickMainCompetitions, MaxPayloadLen) :
       /\ fnInput' = [ fn |-> "pickMainUfcCompetition", competitions |-> competitions ]
       /\ fnOutput' = Returned(now, pickMainUfcCompetition(competitions))
  /\ UNCHANGED << now, pipeline >>

NextNorm ==
  \/ Tick
  \/ PickMain
  \/ NormalizeTeam
  \/ NormalizeUfc
  \/ NormalizeLegacy
  \/ WindowTest

SpecNorm == InitNorm /\ [][NextNorm]_vars

\* ================================================================ claims
\* The four source promises getCalendarEvents awaits, in argument order.
SourcePromises ==
  << club["MANCHESTER_UNITED"], club["LEEDS_UNITED"], legacy, ufc >>

\* The lists of the four sources, concatenated as getCalendarEvents does.
Concatenated ==
  club["MANCHESTER_UNITED"].value \o club["LEEDS_UNITED"].value
    \o legacy.value \o ufc.value

Instant(event) == NewDate(event.startTimeUTC).time

\* C1: in every feed getCalendarEvents returns, an event with an earlier
\* start instant comes before one with a later instant, and of two events
\* with the same instant the one of the lower-ranked source comes first.
C1_FeedOrdered ==
  top.state = "fulfilled" =>
    \A i, j \in 1..Len(top.value) :
      LET a == top.value[i]
          b == top.value[j]
      IN  /\ NewDate(a.startTimeUTC).valid
          /\ (Instant(a) < Instant(b) => i < j)
          /\ (Instant(a) = Instant(b) /\ SORT_ORDER[a.source] < SORT_ORDER[b.source]
                => i < j)

\* A feed of all four sources that holds events of one instant from different
\* sources and that the sort had to reorder.
C1_Witness ==
  /\ top.state = "fulfilled"
  /\ top.value # Concatenated
  /\ { top.value[i].source : i \in 1..Len(top.value) } = CalendarSource
  /\ \E i, j \in 1..Len(top.value) :
       /\ Instant(top.value[i]) = Instant(top.value[j])
       /\ top.value[i].source # top.value[j].source

\* C2: the feed getCalendarEvents returns holds no two events with the same
\* id, whatever the four sources answered.
C2_FeedIdsUnique ==
  top.state = "fulfilled" =>
    \A i, j \in 1..Len(top.value) : i # j => top.value[i].id # top.value[j].id

\* A feed built from answers that repeat a provider id: within each club's
\* schedule and scoreboard, between the two clubs, and within the UFC body.
C2_Witness ==
  /\ top.state = "fulfilled"
  /\ \A c \in ClubSources :
       /\ \E k \in 1..Len(sched[c].data) : sched[c].data[k].id = "401"
       /\ \E k \in 1..Len(board[c].aggregated) : board[c].aggregated[k].id = "401"
  /\ \E i \in 1..Len(top.value) : top.value[i].id = "MANCHESTER_UNITED-401"
  /\ \E i \in 1..Len(top.value) : top.value[i].id = "LEEDS_UNITED-401"
  /\ \E i \in 1..Len(top.value) : top.value[i].id = "UFC-600"
  /\ \E i \in 1..Len(top.value) : top.value[i].id = "LEGACY_CS2-2"

Rejections == { i \in 1..4 : SourcePromises[i].state = "rejected" }

\* C4: when exactly one of the four source fetches has raised and the other
\* three have succeeded, getCalendarEvents completes successfully with the
\* events of the three successful sources.
C4_OneFailureTolerated ==
  ( /\ \A i \in 1..4 : Settled(SourcePromises[i])
    /\ Cardinality(Rejections) = 1 )
    => /\ top.state = "fulfilled"
       /\ top.value = sortEvents(Concatenated)

\* C5: the four source fetches are all started by the time the call awaits,
\* and the call settles only after each of the four has settled.
C5_SettlesAfterAllSettled ==
  /\ (top.state # "idle" => \A i \in 1..4 : SourcePromises[i].state # "idle")
  /\ (Settled(top) => \A i \in 1..4 : Settled(SourcePromises[i]))

NoRequestFailed(task) == \A k \in 1..Len(task.responses) : task.responses[k].ok
EveryRequestFailed(task) == \A k \in 1..Len(task.responses) : ~task.responses[k].ok
SomeRequestSucceeded(task) == \E k \in 1..Len(task.responses) : task.responses[k].ok

\* C6: fetchTeamSchedule requests the club's endpoints in list order; when
\* no request failed it returns the first response that has an event, or the
\* last endpoint's response when every response is empty, and requests no
\* endpoint after the response it returns.
C6_ScheduleFallback ==
  \A c \in ClubSources :
    LET task == sched[c]
        endpoints == TEAM_SOURCES[c].endpoints
        k == Len(task.responses)
    IN  /\ Len(task.requested) <= Len(endpoints)
        /\ task.requested = SubSeq(endpoints, 1, Len(task.requested))
        /\ (task.pc = "returned" /\ NoRequestFailed(task)) =>
             /\ k >= 1
             /\ task.data = task.responses[k].body
             /\ \A j \in 1..(k - 1) : Len(task.responses[j].body) = 0
             /\ (Len(task.data) > 0 \/ k = Len(endpoints))
             /\ Len(task.requested) = k

\* Leeds United's schedule taken from the second endpoint after the first
\* answered without events, and Manchester United's taken from its only one.
C6_Witness ==
  /\ sched["LEEDS_UNITED"].pc = "returned"
  /\ NoRequestFailed(sched["LEEDS_UNITED"])
  /\ Len(sched["LEEDS_UNITED"].responses) = 2
  /\ Len(sched["LEEDS_UNITED"].data) > 0
  /\ sched["MANCHESTER_UNITED"].pc = "returned"
  /\ NoRequestFailed(sched["MANCHESTER_UNITED"])

\* C7: fetchTeamSchedule raises only if every one of the club's endpoint
\* requests failed, and then raises the final endpoint's error; if a request
\* succeeded, even without events, it returns.
C7_ScheduleRaisesOnlyIfAllFailed ==
  \A c \in ClubSources :
    LET task == sched[c]
        endpoints == TEAM_SOURCES[c].endpoints
    IN  /\ task.pc = "thrown" =>
             /\ EveryRequestFailed(task)
             /\ Len(task.responses) = Len(endpoints)
             /\ task.lastError = FetchError(endpoints[Len(endpoints)])
        /\ (task.pc \in { "returned", "thrown" } /\ SomeRequestSucceeded(task))
             => task.pc = "returned"

\* C8: when every schedule endpoint of a club failed and its scoreboard call
\* returned, the club fetch returns (the schedule counting as empty) and the
\* aggregation call does not fail with the schedule's error.
C8_FailedScheduleIsEmptyView ==
  \A c \in ClubSources :
    ( /\ sched[c].pc = "thrown"
      /\ EveryRequestFailed(sched[c])
      /\ board[c].pc = "returned" )
      => /\ club[c].state = "fulfilled"
         /\ top.state = "rejected" => top.error # sched[c].lastError

\* C9: fetchTeamScoreboardEvents raises only if every scoreboard request
\* failed and nothing was collected; if a request succeeded it returns what
\* it collected, possibly nothing.
C9_ScoreboardRaisesOnlyIfAllFailed ==
  \A c \in ClubSources :
    LET task == board[c]
    IN  /\ task.pc = "thrown" =>
             EveryRequestFailed(task) /\ Len(task.aggregated) = 0
        /\ (task.pc \in { "returned", "thrown" } /\ SomeRequestSucceeded(task))
             => task.pc = "returned"

\* C3: mergeAndSortEvents returns one entry for each id of its lists, and
\* the entry of an id is the last one of that id in argument and list order
\* (for a club fetch: the scoreboard's entry, the second list's).
C3_MergeKeepsLast ==
  (fnInput.fn = "mergeAndSortEvents" /\ fnOutput.done) =>
    LET flat == Flatten(fnInput.sources)
        out == fnOutput.events
    IN  /\ \A k \in 1..Len(flat) : \E i \in 1..Len(out) : out[i].id = flat[k].id
        /\ \A i, j \in 1..Len(out) : i # j => out[i].id # out[j].id
        /\ \A i \in 1..Len(out) :
             \E k \in 1..Len(flat) :
               /\ flat[k] = out[i]
               /\ \A m \in (k + 1)..Len(flat) : flat[m].id # out[i].id

\* A merge of two lists that both hold an id, with different entries, the
\* first of which holds it twice.
C3_Witness ==
  /\ fnInput.fn = "mergeAndSortEvents"
  /\ fnOutput.done
  /\ LET first == fnInput.sources[1]
         second == fnInput.sources[2]
     IN  /\ Len(first) = 2 /\ Len(second) >= 1
         /\ first[1].id = first[2].id /\ first[1] # first[2]
         /\ second[1].id = first[1].id
         /\ second[1] # first[1] /\ second[1] # first[2]
         /\ Len(fnOutput.events) < Len(first) + Len(second)

Normalizers ==
  { "normalizeTeamEvents", "normalizeUfcEvents", "normalizeLegacyCs2Matches" }

\* C10: every event a normalizer emits has a start time that parses to an
\* instant inside its source's window as the clock read when the normalizer
\* ran: 1 month behind to 6 ahead for the clubs and the UFC, 3 behind to 18
\* ahead for Legacy CS2.
C10_EmittedInsideWindow ==
  (fnInput.fn \in Normalizers /\ fnOutput.done) =>
    \A i \in 1..Len(fnOutput.events) :
      LET event == fnOutput.events[i]
          date == NewDate(event.startTimeUTC)
          behind == IF event.source = "LEGACY_CS2" THEN 3 ELSE 1
          ahead == IF event.source = "LEGACY_CS2" THEN 18 ELSE 6
      IN  /\ event.startTimeUTC # Undefined
          /\ date.valid
          /\ date.time >= fnOutput.clock - behind * DaysPerMonth
          /\ date.time <= fnOutput.clock + ahead * DaysPerMonth

\* A normalizer that ran after the clock had moved, dropped a record and
\* emitted an event on the first day of the moved window.
C10_Witness ==
  /\ fnInput.fn \in Normalizers
  /\ fnOutput.done
  /\ fnOutput.clock > 0
  /\ Len(fnOutput.events) >= 1
  /\ Len(fnOutput.events) < Len(fnInput.events)
  /\ LET event == fnOutput.events[1]
     IN  NewDate(event.startTimeUTC).time =
           fnOutput.clock - (IF event.source = "LEGACY_CS2" THEN 3 ELSE 1) * DaysPerMonth

\* C11: isWithinWindow accepts a timestamp equal to the earliest bound (the
\* clock minus monthsBehind) or to the latest bound (the clock plus
\* monthsAhead), and rejects one a day before the earliest or a day after the
\* latest bound.
C11_WindowInclusive ==
  (fnInput.fn = "isWithinWindow" /\ fnOutput.done /\ NewDate(fnInput.dateISO).valid) =>
    LET t == NewDate(fnInput.dateISO).time
        earliest == fnOutput.clock - fnInput.monthsBehind * DaysPerMonth
        latest == fnOutput.clock + fnInput.monthsAhead * DaysPerMonth
    IN  /\ t \in { earliest, latest } => fnOutput.value = TRUE
        /\ t \in { earliest - 1, latest + 1 } => fnOutput.value = FALSE

\* A timestamp on the latest day of the Legacy window of a clock that has
\* moved, accepted.
C11_Witness ==
  /\ fnInput.fn = "isWithinWindow"
  /\ fnOutput.done
  /\ fnOutput.clock > 0
  /\ fnInput.monthsAhead = LEGACY_RANGE_MONTHS_AHEAD
  /\ NewDate(fnInput.dateISO).valid
  /\ NewDate(fnInput.dateISO).time =
       fnOutput.clock + LEGACY_RANGE_MONTHS_AHEAD * DaysPerMonth
  /\ fnOutput.value = TRUE

\* Of the fixture a normalizeTeamEvents call was given, the competitor of the
\* tracked club and the other one.
OurEntry ==
  LET competitors == fnInput.events[1].competitions[1].competitors
  IN  IF competitors[1].teamId = TEAM_SOURCES[fnInput.source].teamId
        THEN competitors[1] ELSE competitors[2]

TheirEntry ==
  LET competitors == fnInput.events[1].competitions[1].competitors
  IN  IF competitors[1].teamId = TEAM_SOURCES[fnInput.source].teamId
        THEN competitors[2] ELSE competitors[1]

\* The number each numeric score string of the catalogue denotes.
ScoreNumber == [ score \in { "0", "3", "10" } |->
                   IF score = "0" THEN 0 ELSE IF score = "3" THEN 3 ELSE 10 ]

\* normalizeTeamEvents has returned from a call with one fixture whose
\* status state is 'post'.
ConcludedCall ==
  /\ fnInput.fn = "normalizeTeamEvents"
  /\ fnOutput.done
  /\ Len(fnInput.events) = 1
  /\ fnInput.events[1] \in ConcludedFixtures
  /\ fnInput.events[1].competitions[1].state = "post"

BothNumeric ==
  OurEntry.score \in DOMAIN ScoreNumber /\ TheirEntry.score \in DOMAIN ScoreNumber

\* C12: for a concluded club fixture whose two entries carry numeric scores,
\* normalizeTeamEvents sets result to "<our score> - <their score>", the
\* tracked club first whether at home or away, and outcome to WIN when our
\* number is the greater, LOSS when the smaller, DRAW when the two are equal.
C12_NumericOutcome ==
  (ConcludedCall /\ BothNumeric) =>
    /\ Len(fnOutput.events) = 1
    /\ fnOutput.events[1].result = OurEntry.score \o " - " \o TheirEntry.score
    /\ fnOutput.events[1].outcome =
         IF ScoreNumber[OurEntry.score] > ScoreNumber[TheirEntry.score] THEN "WIN"
         ELSE IF ScoreNumber[OurEntry.score] < ScoreNumber[TheirEntry.score] THEN "LOSS"
         ELSE "DRAW"

\* The tracked club away, winning 10 to 3: the greater number is the
\* smaller string.
C12_Witness ==
  /\ ConcludedCall
  /\ OurEntry.homeAway = "away"
  /\ OurEntry.score = "10"
  /\ TheirEntry.score = "3"
  /\ Len(fnOutput.events) = 1
  /\ fnOutput.events[1].outcome = "WIN"

\* C13: for a concluded club fixture whose two entries do not both carry a
\* parsable numeric score, normalizeTeamEvents sets no outcome, and sets
\* result to the status detail, or else the status description, when there
\* is one.
C13_TextualResult ==
  (ConcludedCall /\ ~BothNumeric) =>
    LET competition == fnInput.events[1].competitions[1]
    IN  /\ Len(fnOutput.events) = 1
        /\ fnOutput.events[1].outcome = Undefined
        /\ fnOutput.events[1].result =
             IF competition.detail \notin { Undefined, "" } THEN competition.detail
             ELSE IF competition.description \notin { Undefined, "" }
               THEN competition.description
             ELSE Undefined

\* C14: every event a normalizer emits has a title that is not empty,
\* whatever the payload, name fields absent or empty included.
C14_TitleNeverEmpty ==
  (fnInput.fn \in Normalizers /\ fnOutput.done) =>
    \A i \in 1..Len(fnOutput.events) :
      fnOutput.events[i].title \notin { Undefined, "" }

\* What the called normalizer makes of one record of its payload on its own.
EmittedAlone(record) ==
  IF fnInput.fn = "normalizeTeamEvents"
    THEN normalizeTeamEvents(<< record >>, fnInput.source, fnOutput.clock)
  ELSE IF fnInput.fn = "normalizeUfcEvents"
    THEN normalizeUfcEvents(<< record >>, fnOutput.clock)
  ELSE normalizeLegacyCs2Matches(<< record >>, fnOutput.clock).events

\* The field a normalizer tells the records of a payload apart by.
RecordKey(record) ==
  IF fnInput.fn = "normalizeLegacyCs2Matches" THEN record.timestampAttr ELSE record.id

\* C15: no normalizer raises because of a malformed record: the record is
\* dropped, or emitted without the unusable field, and the other records of
\* the payload (here: those that share their key with no other record) are
\* still returned.
C15_NormalizersNeverRaise ==
  (fnInput.fn \in Normalizers /\ fnOutput.done) =>
    /\ ~fnOutput.threw
    /\ \A k \in 1..Len(fnInput.events) :
         ( /\ EmittedAlone(fnInput.events[k]) # << >>
           /\ \A j \in 1..Len(fnInput.events) :
                j # k => RecordKey(fnInput.events[j]) # RecordKey(fnInput.events[k]) )
         => \E i \in 1..Len(fnOutput.events) :
              fnOutput.events[i] = EmittedAlone(fnInput.events[k])[1]

\* The events of the body GET answered with.
PublicEvents == route.body[1].events

\* C17: the public view GET builds holds, for each event of the full feed
\* and in the feed's order, an event without venue, location, status and
\* subtitle whose other fields are those of the feed's event; it holds as
\* many events as the feed.
C17_PublicViewStripsMeta ==
  (route.pc = "returned" /\ route.status = 200) =>
    /\ Len(PublicEvents) = Len(top.value)
    /\ \A i \in 1..Len(top.value) :
         /\ \A field \in { "venue", "location", "status", "subtitle" } :
              PublicEvents[i][field] = Undefined
         /\ \A field \in { "id", "source", "title", "competition", "fighters",
                            "startTimeUTC", "result", "outcome" } :
              PublicEvents[i][field] = top.value[i][field]

\* A feed of several events, one of which has all four of the fields the
\* view strips, answered.
C17_Witness ==
  /\ route.pc = "returned"
  /\ route.status = 200
  /\ Len(top.value) > 1
  /\ \E i \in 1..Len(top.value) :
       \A field \in { "venue", "location", "status", "subtitle" } :
         top.value[i][field] # Undefined

\* C18: no event of the public feed GET answers with carries venue,
\* location, status, subtitle or url.
C18_PublicViewHasNoUrl ==
  (route.pc = "returned" /\ route.status = 200) =>
    \A i \in 1..Len(PublicEvents) :
      \A field \in { "venue", "location", "status", "subtitle", "url" } :
        PublicEvents[i][field] = Undefined

\* C19: GET never raises; it answers 200 with the public feed under the key
\* 'events' exactly when getCalendarEvents succeeded, and 500 with the
\* payload {error: 'Failed to load events'} and nothing else exactly when
\* getCalendarEvents raised.
C19_GetAnswers ==
  /\ route.pc # "thrown"
  /\ (route.pc = "awaiting") = (top.state = "pending")
  /\ top.state = "fulfilled" =>
       /\ route.pc = "returned" /\ route.status = 200
       /\ DOMAIN route.body[1] = { "events" }
       /\ Len(PublicEvents) = Len(top.value)
  /\ top.state = "rejected" =>
       /\ route.pc = "returned" /\ route.status = 500
       /\ DOMAIN route.body[1] = { "error" }
       /\ route.body[1].error = "Failed to load events"

\* A 500 answered after the combat-sports request failed while a club fetch
\* had returned events.
C19_Witness ==
  /\ route.pc = "returned"
  /\ route.status = 500
  /\ top.error = FetchError(UFC_SCOREBOARD_ENDPOINT)
  /\ \E c \in ClubSources : club[c].state = "fulfilled" /\ Len(club[c].value) > 0

\* Every request of the task was answered, and answered without events.
AnsweredEmpty(task) ==
  /\ task.pc = "returned"
  /\ \A k \in 1..Len(task.responses) :
       task.responses[k].ok /\ task.responses[k].body = << >>

\* The end-to-end scenario: Leeds United's primary schedule endpoint answered
\* without events and its secondary one with a single concluded fixture, the
\* club at home with 3 against 0, inside the window; every other fetch of
\* the cycle succeeded without events.
C20_Scenario ==
  LET task == sched["LEEDS_UNITED"]
  IN  /\ task.pc = "returned"
      /\ Len(task.responses) = 2
      /\ task.responses[1] = Success(<< >>)
      /\ task.responses[2].ok
      /\ Len(task.responses[2].body) = 1
      /\ LET competition == task.responses[2].body[1].competitions[1]
         IN  /\ competition.state = "post"
             /\ competition.competitors[1] = LeedsHome("3")
             /\ competition.competitors[2].score = "0"
             /\ isWithinDefaultWindow(toISO(competition.date), now)
      /\ AnsweredEmpty(sched["MANCHESTER_UNITED"])
      /\ \A c \in ClubSources : AnsweredEmpty(board[c])
      /\ legacy = Fulfilled(<< >>)
      /\ ufc = Fulfilled(<< >>)

\* C20: in the end-to-end scenario the aggregated feed holds exactly one
\* event, with outcome WIN and result "3 - 0".
C20_EndToEnd ==
  C20_Scenario =>
    /\ top.state = "fulfilled"
    /\ Len(top.value) = 1
    /\ top.value[1].outcome = "WIN"
    /\ top.value[1].result = "3 - 0"

\* The scenario has run to its end and GET has answered.
C20_Witness ==
  /\ C20_Scenario
  /\ Settled(top)
  /\ route.pc = "returned"

\* A call of normalizeUfcEvents that has returned.
UfcCall == fnInput.fn = "normalizeUfcEvents" /\ fnOutput.done

\* The date string normalizeUfcEvents resolves a raw entry's time from: the
\* entry's own, else that of its main sub-competition.
UfcEntryDate(entry) ==
  IF entry.date # Undefined THEN entry.date
  ELSE IF entry.competitions = << >> THEN Undefined
  ELSE pickMainUfcCompetition(entry.competitions)[1].date

\* The entry has a timestamp that resolves to an instant inside the default
\* window of the clock reading `clock`.
UfcResolvable(entry, clock) ==
  /\ NewDate(UfcEntryDate(entry)).valid
  /\ NewDate(UfcEntryDate(entry)).time >= clock - DEFAULT_RANGE_MONTHS_BEHIND * DaysPerMonth
  /\ NewDate(UfcEntryDate(entry)).time <= clock + DEFAULT_RANGE_MONTHS_AHEAD * DaysPerMonth

\* The entry at position k is the first of the payload with its provider id.
UfcFirstOfId(k) ==
  \A j \in 1..(k - 1) : fnInput.events[j].id # fnInput.events[k].id

UfcEmitted(providerId) ==
  \E i \in 1..Len(fnOutput.events) : fnOutput.events[i].id = "UFC-" \o providerId

\* At most one event per provider id, named 'UFC-<provider id>', and none
\* for an entry without a provider id.
UfcIdsWellFormed ==
  /\ \A i, j \in 1..Len(fnOutput.events) :
       i # j => fnOutput.events[i].id # fnOutput.events[j].id
  /\ \A i \in 1..Len(fnOutput.events) :
       \E k \in 1..Len(fnInput.events) :
         /\ fnInput.events[k].id \notin { Undefined, "" }
         /\ fnOutput.events[i].id = "UFC-" \o fnInput.events[k].id
  /\ Len(fnOutput.events) <=
       Cardinality({ fnInput.events[k].id : k \in 1..Len(fnInput.events) }
                     \ { Undefined, "" })

\* C21 as stated: normalizeUfcEvents emits at most one event per provider
\* id, named 'UFC-<provider id>', none for an entry without an id, and one
\* for an id whenever some entry with that id has a resolvable in-window
\* timestamp.
C21_UfcOnePerId ==
  UfcCall =>
    /\ UfcIdsWellFormed
    /\ \A k \in 1..Len(fnInput.events) :
         ( /\ fnInput.events[k].id \notin { Undefined, "" }
           /\ UfcResolvable(fnInput.events[k], fnOutput.clock) )
         => UfcEmitted(fnInput.events[k].id)

\* C21 amended: as above, but an id has its event exactly when the first
\* entry of the payload with that id has a resolvable in-window timestamp.
C21_UfcOnePerIdByFirstEntry ==
  UfcCall =>
    /\ UfcIdsWellFormed
    /\ \A k \in 1..Len(fnInput.events) :
         (fnInput.events[k].id \notin { Undefined, "" } /\ UfcFirstOfId(k)) =>
           (UfcEmitted(fnInput.events[k].id)
              <=> UfcResolvable(fnInput.events[k], fnOutput.clock))

\* Two different in-window entries of one provider id, made into one event.
C21_Witness ==
  /\ UfcCall
  /\ Len(fnInput.events) = 2
  /\ fnInput.events[1].id = "600"
  /\ fnInput.events[2].id = "600"
  /\ fnInput.events[1] # fnInput.events[2]
  /\ UfcResolvable(fnInput.events[1], fnOutput.clock)
  /\ UfcResolvable(fnInput.events[2], fnOutput.clock)
  /\ Len(fnOutput.events) = 1

\* The payload without the entries that repeat the provider id of an earlier
\* entry.
RECURSIVE UfcFirstEntries(_, _)
UfcFirstEntries(events, ids) ==
  IF events = << >> THEN << >>
  ELSE IF Head(events).id \in ids THEN UfcFirstEntries(Tail(events), ids)
  ELSE << Head(events) >> \o UfcFirstEntries(Tail(events), ids \cup { Head(events).id })

\* C30: of the entries of one provider id, normalizeUfcEvents looks at the
\* first in payload order only: the event's title, competition, fighters
\* and start time are that entry's, and the later entries change nothing in
\* the output.
C30_UfcFirstEntryOnly ==
  UfcCall =>
    /\ \A i \in 1..Len(fnOutput.events) :
         \E k \in 1..Len(fnInput.events) :
           LET entry == fnInput.events[k]
               picked == pickMainUfcCompetition(entry.competitions)
           IN  /\ UfcFirstOfId(k)
               /\ fnOutput.events[i].id = "UFC-" \o entry.id
               /\ fnOutput.events[i].title = entry.name
               /\ fnOutput.events[i].startTimeUTC =
                    ToISOString(NewDate(UfcEntryDate(entry)).time)
               /\ fnOutput.events[i].competition =
                    (IF picked = None THEN Undefined ELSE picked[1].typeText)
               /\ fnOutput.events[i].fighters =
                    (IF picked = None \/ FilterBoolean(picked[1].athletes) = << >>
                       THEN Undefined
                     ELSE Join(FilterBoolean(picked[1].athletes), " vs "))
    /\ fnOutput.events =
         normalizeUfcEvents(UfcFirstEntries(fnInput.events, { }), fnOutput.clock)

\* Card 600 listed twice with different names, days and bouts, both inside
\* the window: the event is the first listing's.
C30_Witness ==
  /\ UfcCall
  /\ Len(fnInput.events) = 2
  /\ fnInput.events[1].id = "600"
  /\ fnInput.events[2].id = "600"
  /\ fnInput.events[1].name # fnInput.events[2].name
  /\ fnInput.events[1].date # fnInput.events[2].date
  /\ UfcResolvable(fnInput.events[2], fnOutput.clock)
  /\ Len(fnOutput.events) = 1
  /\ fnOutput.events[1].title = fnInput.events[1].name

PickCall == fnInput.fn = "pickMainUfcCompetition" /\ fnOutput.done

\* The match number a candidate is ranked by, a missing one counting as 100.
PickRank(competition) ==
  IF competition.matchNumber = None THEN 100 ELSE competition.matchNumber[1]

\* The positions of the list that are candidates: those of the main card
\* when there is one, else all.
PickCandidates(competitions) ==
  LET main == { j \in 1..Len(competitions) : competitions[j].cardSegment = "main" }
  IN  IF main # { } THEN main ELSE 1..Len(competitions)

\* C22: pickMainUfcCompetition returns undefined for an empty list, and
\* otherwise the candidate (main-card entries when there is one, else all
\* entries) of the smallest match number, a missing number counting as 100,
\* and the earliest such candidate of the list on ties.
C22_PickMain ==
  PickCall =>
    IF fnInput.competitions = << >> THEN fnOutput.value = None
    ELSE \E k \in PickCandidates(fnInput.competitions) :
           /\ fnOutput.value = Some(fnInput.competitions[k])
           /\ \A j \in PickCandidates(fnInput.competitions) :
                /\ PickRank(fnInput.competitions[k]) <= PickRank(fnInput.competitions[j])
                /\ PickRank(fnInput.competitions[k]) = PickRank(fnInput.competitions[j])
                     => k <= j

\* Two main-card bouts, the first without a match number and the second
\* numbered 100: a tie, and the first is returned.
C22_Witness ==
  /\ PickCall
  /\ Len(fnInput.competitions) = 2
  /\ fnInput.competitions[1].cardSegment = "main"
  /\ fnInput.competitions[2].cardSegment = "main"
  /\ fnInput.competitions[1].matchNumber = None
  /\ fnInput.competitions[2].matchNumber = Some(100)
  /\ fnInput.competitions[1].typeText # fnInput.competitions[2].typeText
  /\ fnOutput.value = Some(fnInput.competitions[1])

LegacyCall == fnInput.fn = "normalizeLegacyCs2Matches" /\ fnOutput.done

\* Row k is a recognized row and the only row of the page with its
\* timestamp attribute, so that an event with that timestamp in its id is
\* made from row k.
LegacyRowAlone(k) ==
  /\ IsMatchRow(fnInput.events[k])
  /\ fnInput.events[k].timestampAttr # Undefined
  /\ \A j \in 1..Len(fnInput.events) :
       j # k => fnInput.events[j].timestampAttr # fnInput.events[k].timestampAttr

LegacyEventsOf(k) ==
  { i \in 1..Len(fnOutput.events) :
      fnOutput.events[i].id = "LEGACY_CS2-" \o fnInput.events[k].timestampAttr }

\* C23 as stated: normalizeLegacyCs2Matches emits an event only for rows of
\* at least 8 table cells; a recognized row with fewer (7, say) and a valid
\* in-window timestamp produces no event.
C23_EightCellsRequired ==
  LegacyCall =>
    \A k \in 1..Len(fnInput.events) :
      (LegacyRowAlone(k) /\ Len(fnInput.events[k].cells) < 8) => LegacyEventsOf(k) = { }

\* The outcome the row's class attribute stands for: the class names hold
\* no white space, so one of them includes a marker exactly when the
\* attribute does.
StyledOutcome(classAttr) ==
  IF Includes(classAttr, "bg-win") THEN "WIN"
  ELSE IF Includes(classAttr, "bg-lose") THEN "LOSS"
  ELSE IF Includes(classAttr, "bg-draw") \/ Includes(classAttr, "bg-tie") THEN "DRAW"
  ELSE Undefined

\* The score cell's text, cleaned, when it holds a digit.
StyledResult(cells) ==
  IF Len(cells) >= 7 /\ \E i \in 1..Len(cells[7].text) : IsDigit(CharAt(cells[7].text, i))
    THEN cleanText(cells[7].text)
  ELSE Undefined

\* C24: the outcome of a Legacy CS2 event comes from the row's classes alone
\* (bg-win: WIN, else bg-lose: LOSS, else bg-draw or bg-tie: DRAW, else
\* absent), whatever the score text; the result is the cleaned score text
\* when that holds a digit and is absent otherwise.
C24_LegacyOutcomeAndResult ==
  LegacyCall =>
    \A k \in 1..Len(fnInput.events) :
      LegacyRowAlone(k) =>
        \A i \in LegacyEventsOf(k) :
          /\ fnOutput.events[i].outcome = StyledOutcome(fnInput.events[k].classAttr)
          /\ fnOutput.events[i].result = StyledResult(fnInput.events[k].cells)

\* A row carrying the loss class before the win class, and a score text
\* without a digit: a WIN without a result.
C24_Witness ==
  /\ LegacyCall
  /\ Len(fnInput.events) = 1
  /\ fnInput.events[1].classAttr = "match-row bg-lose bg-win"
  /\ fnInput.events[1].cells[7].text = "vs"
  /\ Len(fnOutput.events) = 1
  /\ fnOutput.events[1].outcome = "WIN"
  /\ fnOutput.events[1].result = Undefined

TeamCall == fnInput.fn = "normalizeTeamEvents" /\ fnOutput.done

\* The date string a raw fixture's time is resolved from: its first
\* competition's, else its own.
TeamEntryDate(fixture) ==
  IF fixture.competitions # << >> /\ fixture.competitions[1].date # Undefined
    THEN fixture.competitions[1].date
  ELSE fixture.date

\* The fixtures of the call that are emitted: those whose date resolves to
\* an instant inside the default window.
TeamKept ==
  { k \in 1..Len(fnInput.events) :
      /\ NewDate(TeamEntryDate(fnInput.events[k])).valid
      /\ NewDate(TeamEntryDate(fnInput.events[k])).time
           >= fnOutput.clock - DEFAULT_RANGE_MONTHS_BEHIND * DaysPerMonth
      /\ NewDate(TeamEntryDate(fnInput.events[k])).time
           <= fnOutput.clock + DEFAULT_RANGE_MONTHS_AHEAD * DaysPerMonth }

\* The position in the payload of the fixture behind the i-th event.
TeamFixtureOf(i) ==
  CHOOSE k \in TeamKept : Cardinality({ j \in TeamKept : j <= k }) = i

\* The id the claim gives a fixture: a function of source and fixture alone.
TeamIdOf(source, fixture) ==
  IF fixture.id # Undefined THEN source \o "-" \o fixture.id
  ELSE source \o "-" \o ToISOString(NewDate(TeamEntryDate(fixture)).time)

\* C25: a club event's id is '<source>-<provider event id>' when the raw
\* fixture carries a provider event id and '<source>-<startTimeUTC>'
\* otherwise, and normalizing the same fixture at another time gives the
\* same id.
C25_ClubIdStable ==
  TeamCall =>
    /\ Len(fnOutput.events) = Cardinality(TeamKept)
    /\ \A i \in 1..Len(fnOutput.events) :
         /\ fnOutput.events[i].id = TeamIdOf(fnInput.source, fnInput.events[TeamFixtureOf(i)])
         /\ fnInput.events[TeamFixtureOf(i)].id = Undefined
              => fnOutput.events[i].id
                   = fnInput.source \o "-" \o fnOutput.events[i].startTimeUTC
    /\ \A k \in 1..Len(fnInput.events) : \A clock \in 0..MaxTicks :
         LET here == normalizeTeamEvents(<< fnInput.events[k] >>, fnInput.source,
                                         fnOutput.clock)
             there == normalizeTeamEvents(<< fnInput.events[k] >>, fnInput.source, clock)
         IN  (here # << >> /\ there # << >>) => here[1].id = there[1].id

\* A fixture without a provider id and one with, normalized on a day that
\* is not the first one's.
C25_Witness ==
  /\ TeamCall
  /\ fnOutput.clock = 1
  /\ Len(fnInput.events) = 2
  /\ fnInput.events[1].id = Undefined
  /\ fnInput.events[2].id = "403"
  /\ Len(fnOutput.events) = 2
  /\ fnOutput.events[1].startTimeUTC # ToISOString(fnOutput.clock)
  /\ fnOutput.events[1].id = fnInput.source \o "-" \o fnOutput.events[1].startTimeUTC
  /\ fnOutput.events[2].id = fnInput.source \o "-403"

\* The status state of the raw fixture behind the i-th club event.
TeamStateOf(i) ==
  IF fnInput.events[TeamFixtureOf(i)].competitions = << >> THEN Undefined
  ELSE fnInput.events[TeamFixtureOf(i)].competitions[1].state

\* C27: a club event has a result only if the raw fixture's status state
\* is 'post'; a combat-sports event never has one; and an event of either
\* normalizer has an outcome only if it has a result.
C27_ResultOnlyWhenConcluded ==
  /\ TeamCall =>
       /\ Len(fnOutput.events) = Cardinality(TeamKept)
       /\ \A i \in 1..Len(fnOutput.events) :
            /\ fnOutput.events[i].result # Undefined => TeamStateOf(i) = "post"
            /\ fnOutput.events[i].outcome # Undefined
                 => fnOutput.events[i].result # Undefined
  /\ UfcCall =>
       \A i \in 1..Len(fnOutput.events) :
         /\ fnOutput.events[i].result = Undefined
         /\ fnOutput.events[i].outcome = Undefined

\* A fixture in play, both scores reported and a status detail: no result
\* and no outcome.
C27_Witness ==
  /\ TeamCall
  /\ Len(fnInput.events) = 1
  /\ fnInput.events[1] \in ConcludedFixtures
  /\ fnInput.events[1].competitions[1].state = "in"
  /\ fnInput.events[1].competitions[1].detail = "FT"
  /\ \A c \in 1..2 : fnInput.events[1].competitions[1].competitors[c].score = "3"
  /\ Len(fnOutput.events) = 1
  /\ fnOutput.events[1].result = Undefined
  /\ fnOutput.events[1].outcome = Undefined

\* The raw entry's first competition lists a competitor of the team.
ListsTeam(entry, teamId) ==
  /\ entry.competitions # << >>
  /\ \E i \in 1..Len(entry.competitions[1].competitors) :
       entry.competitions[1].competitors[i].teamId = teamId

\* The entries of the answered scoreboards that list the team, in the order
\* of the answers and then of each answer's entries; a failed request
\* gives none.
RECURSIVE ListedEntries(_, _)
ListedEntries(responses, teamId) ==
  IF responses = << >> THEN << >>
  ELSE (IF Head(responses).ok
          THEN SelectSeq(Head(responses).body, LAMBDA entry : ListsTeam(entry, teamId))
          ELSE << >>)
         \o ListedEntries(Tail(responses), teamId)

\* C26: what fetchTeamScoreboardEvents returns is exactly the entries whose
\* first competition lists the club's team id, from every endpoint that
\* answered, in endpoint order and then payload order, an entry listed by
\* two endpoints appearing twice.
C26_ScoreboardFiltered ==
  \A c \in ClubSources :
    board[c].pc = "returned" =>
      /\ board[c].requested = TEAM_SOURCES[c].scoreboardEndpoints
      /\ Len(board[c].responses) = Len(board[c].requested)
      /\ board[c].aggregated = ListedEntries(board[c].responses, TEAM_SOURCES[c].teamId)

\* Both of Leeds United's scoreboards answered; the first lists a fixture of
\* other clubs, which is left out, and both list the derby, which is
\* returned twice.
C26_Witness ==
  /\ board["LEEDS_UNITED"].pc = "returned"
  /\ \A k \in 1..2 : board["LEEDS_UNITED"].responses[k].ok
  /\ \E k \in 1..Len(board["LEEDS_UNITED"].responses[1].body) :
       board["LEEDS_UNITED"].responses[1].body[k] = OtherClubs
  /\ \A k \in 1..Len(board["LEEDS_UNITED"].aggregated) :
       board["LEEDS_UNITED"].aggregated[k] # OtherClubs
  /\ \E i, j \in 1..Len(board["LEEDS_UNITED"].aggregated) :
       /\ i < j
       /\ board["LEEDS_UNITED"].aggregated[i] = DerbyPlayed
       /\ board["LEEDS_UNITED"].aggregated[j] = DerbyPlayed

\* How many times the event occurs in the list.
Occurrences(events, event) ==
  Cardinality({ i \in 1..Len(events) : events[i] = event })

\* C28: when all four source fetches succeed, the feed of getCalendarEvents
\* is a permutation of the four source lists' concatenation: as long as it,
\* every event as many times in the one as in the other.
C28_FeedIsPermutation ==
  top.state = "fulfilled" =>
    /\ \A i \in 1..4 : SourcePromises[i].state = "fulfilled"
    /\ Len(top.value) = Len(Concatenated)
    /\ \A i \in 1..Len(Concatenated) :
         Occurrences(top.value, Concatenated[i]) = Occurrences(Concatenated, Concatenated[i])
    /\ \A i \in 1..Len(top.value) :
         Occurrences(top.value, top.value[i]) = Occurrences(Concatenated, top.value[i])

\* A feed of all four sources that the sort reordered and that holds two
\* events of one source at one instant.
C28_Witness ==
  /\ top.state = "fulfilled"
  /\ \A i \in 1..4 : Len(SourcePromises[i].value) > 0
  /\ top.value # Concatenated
  /\ \E i, j \in 1..Len(top.value) :
       /\ i # j
       /\ sortEventsCompare(top.value[i], top.value[j]) = 0

IsPrefix(short, long) ==
  /\ Len(short) <= Len(long)
  /\ \A i \in 1..Len(short) : short[i] = long[i]

\* The requests of one cycle so far: each adapter has asked its endpoints
\* in list order, none twice, and one more at most than have answered; a
\* schedule fetch has asked nothing beyond the endpoint it accepted, a
\* finished scoreboard fetch has asked every endpoint; the combat-sports and
\* wiki adapters have asked once.
OneRequestPerEndpoint ==
  /\ \A c \in ClubSources :
       /\ IsPrefix(sched[c].requested, TEAM_SOURCES[c].endpoints)
       /\ Len(sched[c].requested) - Len(sched[c].responses)
            = (IF sched[c].pc = "awaiting" THEN 1 ELSE 0)
       /\ IsPrefix(board[c].requested, TEAM_SOURCES[c].scoreboardEndpoints)
       /\ Len(board[c].requested) - Len(board[c].responses)
            = (IF board[c].pc = "awaiting" THEN 1 ELSE 0)
       /\ board[c].pc \in { "returned", "thrown" }
            => board[c].requested = TEAM_SOURCES[c].scoreboardEndpoints
  /\ top.state = "idle"
       => requests = [ LEGACY_CS2 |-> << >>, UFC |-> << >> ]
  /\ top.state # "idle"
       => requests = [ LEGACY_CS2 |-> << LIQUIPEDIA_ENDPOINT >>,
                       UFC |-> << UFC_SCOREBOARD_ENDPOINT >> ]

\* C29: in one aggregation cycle each adapter asks each configured endpoint
\* at most once and never again after a failure (schedule endpoints at most
\* once in list order, scoreboard endpoints exactly once in list order, one
\* combat-sports request, one wiki request); and, every issued request
\* settling, the call of getCalendarEvents settles.
C29_NoRetryAndSettles ==
  /\ []OneRequestPerEndpoint
  /\ (top.state = "pending") ~> Settled(top)

\* A cycle in which the first request of every club adapter failed and the
\* adapters with a second endpoint went on to it: every request has settled
\* and so has the call.
C29_Witness ==
  /\ Settled(top)
  /\ \A c \in ClubSources :
       /\ sched[c].pc # "awaiting"
       /\ board[c].pc # "awaiting"
       /\ ~sched[c].responses[1].ok
       /\ ~board[c].responses[1].ok
       /\ sched[c].requested = TEAM_SOURCES[c].endpoints
       /\ board[c].requested = TEAM_SOURCES[c].scoreboardEndpoints
  /\ Settled(legacy)
  /\ Settled(ufc)
====
